---------------------------- MODULE Spec2Model ----------------------------
(***************************************************************************)
(* A model of cudadoctor (src/src/lib.rs, src/src/main.rs): the detection  *)
(* facades and their strategy chains, the text parsers, the JSON snapshot  *)
(* codec and the environment comparison.                                   *)
(*                                                                         *)
(* Text is modelled by TLA+ strings, taken apart character by character    *)
(* with Len and SubSeq.  An Option<T> is a sequence of length at most one: *)
(* None is << >> and Some(v) is <<v>>.  A Result<String, String> is a      *)
(* record [ok |-> BOOLEAN, val |-> STRING].                                *)
(***************************************************************************)
EXTENDS Integers, Sequences, FiniteSets, TLC

VARIABLES
    pc,         \* position of the operation under way
    current,    \* compare_environments: the locally collected EnvironmentConfig
    imported,   \* compare_environments: the decoded EnvironmentConfig
    printed,    \* the lines written to standard output, in order
    facade,     \* the detection facade that is running
    platform,   \* target_os the program was built for
    stage,      \* the facade's position in its sequence of strategies
    candidates, \* files met so far by the facade's scans
    attempts,   \* the probes made so far, each with its outcome and its token
    result,     \* what the facade returned, None while it runs
    parsing,    \* a parser's call: the parser, its package name, the text
    extracted,  \* what the parser returned
    file,       \* the exported file: None while there is none, or its JSON document
    exported,   \* the configuration export_environment serialized
    operation,  \* the operation that collects a configuration: "export" or "import"
    calls,      \* the detection functions collect_environment_config has called, in order
    built,      \* the configurations collect_environment_config has returned, in order
    arguments,  \* main: the parsed arguments (args)
    ran,        \* main: the functions of the library called so far, in order
    status,     \* main: the exit status of the process, None while it runs
    spawned,    \* run_command: what Command::output() gave
    returned    \* run_command: what it returned, None before it has

reconcileVars == <<current, imported, printed>>

facadeVars == <<facade, platform, stage, candidates, attempts, result>>

parserVars == <<parsing, extracted>>

codecVars == <<file, exported>>

builderVars == <<operation, calls, built>>

mainVars == <<arguments, ran, status>>

probeVars == <<spawned, returned>>

vars == <<pc, reconcileVars, facadeVars, parserVars, codecVars, builderVars,
          mainVars, probeVars>>

---------------------------------------------------------------------------
(* Option and Result *)

None == << >>

Some(v) == <<v>>

IsSome(o) == Len(o) = 1

Unwrap(o) == o[1]

Ok(v) == [ok |-> TRUE, val |-> v]

Err(e) == [ok |-> FALSE, val |-> e]

\* unwrap_or_default() in the place of ok(): an Err becomes the empty string.
ResultOk_or_default(r) == Some(IF r.ok THEN r.val ELSE "")

\* Result::ok(): Ok(v) becomes Some(v), Err(_) becomes None.
ResultOk(r) == IF r.ok THEN Some(r.val) ELSE None

---------------------------------------------------------------------------
(* str operations of the Rust standard library, as the source uses them *)

IsWhitespace(c) == c \in {" ", "\t", "\n", "\r", "\f"}

\* str::contains(pat)
Contains(s, pat) ==
    \E i \in 1..(Len(s) - Len(pat) + 1) : SubSeq(s, i, i + Len(pat) - 1) = pat

\* str::starts_with(pat)
StartsWith(s, pat) == Len(pat) <= Len(s) /\ SubSeq(s, 1, Len(pat)) = pat

\* str::trim(): whitespace removed at both ends.
Trim(s) ==
    LET keep == {i \in 1..Len(s) : ~IsWhitespace(SubSeq(s, i, i))}
    IN  IF keep = {} THEN ""
        ELSE LET lo == CHOOSE i \in keep : \A j \in keep : i <= j
                 hi == CHOOSE i \in keep : \A j \in keep : j <= i
             IN  SubSeq(s, lo, hi)

\* The k-th smallest element of a set of integers.
Kth(S, k) == CHOOSE x \in S : Cardinality({y \in S : y <= x}) = k

\* The pieces of s between the occurrences of the one-character separator sep
\* (str::split(char)): always at least one piece, the pieces may be empty.
Split(s, sep) ==
    LET at == {i \in 1..Len(s) : SubSeq(s, i, i) = sep}
        cuts == {0} \cup at \cup {Len(s) + 1}
    IN  [k \in 1..(Cardinality(at) + 1) |->
            SubSeq(s, Kth(cuts, k) + 1, Kth(cuts, k + 1) - 1)]

\* str::lines(): split at "\n", no last empty line after a final "\n", and a
\* "\r" before the "\n" belongs to the line ending.
StripCR(l) ==
    IF Len(l) > 0 /\ SubSeq(l, Len(l), Len(l)) = "\r"
    THEN SubSeq(l, 1, Len(l) - 1) ELSE l

Lines(s) ==
    LET raw == Split(s, "\n")
        cut == IF raw[Len(raw)] = "" THEN SubSeq(raw, 1, Len(raw) - 1) ELSE raw
    IN  [i \in 1..Len(cut) |-> StripCR(cut[i])]

\* str::split_whitespace(): the maximal runs of non-whitespace characters.
SplitWhitespace(s) ==
    LET black(i) == i >= 1 /\ i <= Len(s) /\ ~IsWhitespace(SubSeq(s, i, i))
        starts == {i \in 1..Len(s) : black(i) /\ ~black(i - 1)}
        ends == {i \in 1..Len(s) : black(i) /\ ~black(i + 1)}
    IN  [k \in 1..Cardinality(starts) |-> SubSeq(s, Kth(starts, k), Kth(ends, k))]

\* Iterator::find: the first element of the sequence among those at the
\* positions hits (the positions satisfying the closure), as an Option.
First(seq, hits) ==
    IF hits = {} THEN None
    ELSE Some(seq[CHOOSE i \in hits : \A j \in hits : i <= j])

---------------------------------------------------------------------------
(* The regular expressions of get_cuda_toolkit_version (regex crate:       *)
(* leftmost match, greedy repetition)                                      *)

IsDigit(c) == c \in {"0", "1", "2", "3", "4", "5", "6", "7", "8", "9"}

\* \d+ at position i of s: the position after the longest run of digits that
\* starts at i, or 0 when no digit stands at i.
RECURSIVE DigitsEnd(_, _)
DigitsEnd(s, i) ==
    IF i <= Len(s) /\ IsDigit(SubSeq(s, i, i))
    THEN (LET e == DigitsEnd(s, i + 1) IN IF e = 0 THEN i + 1 ELSE e)
    ELSE 0

\* (\d+\.\d+) at position i: the position after the match, or 0.  The first
\* \d+ gives nothing back that would help: a "." is no digit.
DottedPairEnd(s, i) ==
    LET a == DigitsEnd(s, i)
    IN  IF a = 0 \/ a > Len(s) \/ SubSeq(s, a, a) # "." THEN 0
        ELSE DigitsEnd(s, a + 1)

\* (\d+\.\d+\.\d+) at position i: the position after the match, or 0.
DottedTripleEnd(s, i) ==
    LET b == DottedPairEnd(s, i)
    IN  IF b = 0 \/ b > Len(s) \/ SubSeq(s, b, b) # "." THEN 0
        ELSE DigitsEnd(s, b + 1)

\* Regex::captures for  <prefix>(\d+\.\d+) : capture group 1 of the leftmost
\* match, as an Option.
CapturePair(s, prefix) ==
    LET n == Len(prefix)
        hits == {i \in 1..Len(s) :
                    /\ i + n - 1 <= Len(s)
                    /\ SubSeq(s, i, i + n - 1) = prefix
                    /\ DottedPairEnd(s, i + n) # 0}
    IN  IF hits = {} THEN None
        ELSE LET i == CHOOSE h \in hits : \A j \in hits : h <= j
             IN  Some(SubSeq(s, i + n, DottedPairEnd(s, i + n) - 1))

\* Regex::captures for  <prefix>(\d+\.\d+\.\d+)
CaptureTriple(s, prefix) ==
    LET n == Len(prefix)
        hits == {i \in 1..Len(s) :
                    /\ i + n - 1 <= Len(s)
                    /\ SubSeq(s, i, i + n - 1) = prefix
                    /\ DottedTripleEnd(s, i + n) # 0}
    IN  IF hits = {} THEN None
        ELSE LET i == CHOOSE h \in hits : \A j \in hits : h <= j
             IN  Some(SubSeq(s, i + n, DottedTripleEnd(s, i + n) - 1))

---------------------------------------------------------------------------
(* The parsers: from the text of a successful probe to an Option<String>   *)

\* get_tensorflow_version / get_pytorch_version, the python import probes
\* (lib.rs 139-144, 185-190).
parse_import_output(stdout) ==
    LET output == Trim(stdout)
    IN  IF /\ output # ""
           /\ ~Contains(output, "not found")
           /\ ~Contains(output, "No module")
           /\ ~Contains(output, "WARNING")
        THEN Some(output)
        ELSE None

\* get_pip_package_version, the Ok arm (lib.rs 89-100).
parse_pip_show(stdout) ==
    LET output == Trim(stdout)
        lines == Lines(output)
        version_line ==
            First(lines, {i \in 1..Len(lines) : Contains(lines[i], "Version:")})
    IN  IF output # "" /\ ~Contains(output, "WARNING: Package(s) not found")
           /\ IsSome(version_line)
        THEN LET pieces == Split(Unwrap(version_line), ":")
                 version == Trim(IF Len(pieces) >= 2 THEN pieces[2] ELSE "")
             IN  IF version # "" THEN Some(version) ELSE None
        ELSE None

\* get_conda_package_version, the Ok arm (lib.rs 110-121).
parse_conda_list(package_name, stdout) ==
    LET output == Trim(stdout)
        lines == Lines(output)
        package_line ==
            First(lines, {i \in 1..Len(lines) : StartsWith(lines[i], package_name)})
    IN  IF output # "" /\ IsSome(package_line)
        THEN LET parts == SplitWhitespace(Unwrap(package_line))
             IN  IF Len(parts) >= 2 THEN Some(parts[2]) ELSE None
        ELSE None

\* The python probes of get_cudnn_version and get_cuda_toolkit_version
\* (lib.rs 290-316, 391-412): anything but nothing and "None".
parse_python_print(stdout) ==
    LET version_str == Trim(stdout)
    IN  IF version_str # "" /\ version_str # "None"
        THEN Some(version_str) ELSE None

\* The two patterns the other way round.
parse_nvcc_version_alternate_first(stdout) ==
    IF IsSome(CaptureTriple(stdout, "V"))
    THEN CaptureTriple(stdout, "V")
    ELSE CapturePair(stdout, "release ")

\* nvcc --version in the first loop of get_cuda_toolkit_version
\* (lib.rs 360-371): the release pattern, then the V pattern.
parse_nvcc_version(stdout) ==
    IF IsSome(CapturePair(stdout, "release "))
    THEN CapturePair(stdout, "release ")
    ELSE CaptureTriple(stdout, "V")

\* nvcc --version for an nvcc found in PATH or by the walk (lib.rs 457-462,
\* 485-490): the release pattern only.
parse_nvcc_release(stdout) == CapturePair(stdout, "release ")

\* cat /usr/local/cuda/version.txt (lib.rs 378-383).
parse_version_txt(stdout) == CapturePair(stdout, "CUDA Version ")

\* One directive of the cuDNN header (lib.rs 324-328): the last word of the
\* first line containing the directive, "" when no line contains it.
header_directive(content, directive) ==
    LET lines == Lines(content)
        line == First(lines, {i \in 1..Len(lines) : Contains(lines[i], directive)})
    IN  IF IsSome(line) /\ SplitWhitespace(Unwrap(line)) # << >>
        THEN LET words == SplitWhitespace(Unwrap(line)) IN words[Len(words)]
        ELSE ""

\* extract_cudnn_version_from_header not asking for the patch level.
parse_cudnn_header_patch_optional(content) ==
    LET major == header_directive(content, "#define CUDNN_MAJOR")
        minor == header_directive(content, "#define CUDNN_MINOR")
        patch == header_directive(content, "#define CUDNN_PATCHLEVEL")
    IN  IF major # "" /\ minor # ""
        THEN Some(major \o "." \o minor \o "." \o patch)
        ELSE None

\* extract_cudnn_version_from_header on the content read (lib.rs 324-344).
parse_cudnn_header(content) ==
    LET major == header_directive(content, "#define CUDNN_MAJOR")
        minor == header_directive(content, "#define CUDNN_MINOR")
        patch == header_directive(content, "#define CUDNN_PATCHLEVEL")
    IN  IF major # "" /\ minor # "" /\ patch # ""
        THEN Some(major \o "." \o minor \o "." \o patch)
        ELSE None

---------------------------------------------------------------------------
(* The data model: EnvironmentConfig and its parts (lib.rs 13-50) *)

\* DateTime<Utc>: whole seconds and the nanoseconds within the second.
DateTime(secs, nanos) == [secs |-> secs, nanos |-> nanos]

\* f64.  A finite value is held as the whole number it is computed from (the
\* bytes of total_memory(), the MiB nvidia-smi prints): the divisions by
\* 1024.0 that follow are exact and lose nothing of it.
Finite(n) == [class |-> "finite", number |-> n]

Infinite == [class |-> "infinite", number |-> 0]

NotANumber == [class |-> "nan", number |-> 0]

SystemInfo(os, arch, cpu, mem, python) ==
    [os |-> os, arch |-> arch, cpu |-> cpu, total_memory_gb |-> mem,
     python_version |-> python]

GpuInfo(name, mem, cc) ==
    [name |-> name, memory_gb |-> mem, compute_capability |-> cc]

CudaInfo(driver, cuda, cudnn, gpus) ==
    [driver_version |-> driver, cuda_version |-> cuda, cudnn_version |-> cudnn,
     gpus |-> gpus]

FrameworkInfo(tf, torch) == [tensorflow |-> tf, pytorch |-> torch]

EnvironmentConfig(sys, cuda, fw, ts, host) ==
    [system_info |-> sys, cuda_info |-> cuda, frameworks |-> fw,
     timestamp |-> ts, hostname |-> host]

\* The value of a variable that holds no EnvironmentConfig (yet).
NoConfig == << >>

---------------------------------------------------------------------------
(* The environment comparison (lib.rs 1501-1539)                           *)
(* A printed line is the format string of its println! (the leading        *)
(* spaces and the pictograph left out) with the arguments it is given.     *)

Line(fmt, args) == [fmt |-> fmt, args |-> args]

\* Display of a natural number: its decimal digits.
Digit(d) == SubSeq("0123456789", d + 1, d + 1)

RECURSIVE DecimalString(_)
DecimalString(n) == IF n < 10 THEN Digit(n) ELSE DecimalString(n \div 10) \o Digit(n % 10)

\* DateTime::format("%Y-%m-%d %H:%M:%S UTC"): the seconds, no fraction.
FormatTimestamp(ts) == DecimalString(ts.secs) \o " UTC"

\* compare_versions with the two one-sided arms exchanged.
compare_versions_arms_swapped(component, curr, imp) ==
    IF IsSome(curr) /\ IsSome(imp)
    THEN IF Unwrap(curr) = Unwrap(imp)
         THEN Line("{}: {} (matches)", <<component, Unwrap(curr)>>)
         ELSE Line("{}: {} vs {} (different)",
                   <<component, Unwrap(curr), Unwrap(imp)>>)
    ELSE IF IsSome(curr)
         THEN Line("{}: {} (missing locally)", <<component, Unwrap(curr)>>)
         ELSE IF IsSome(imp)
              THEN Line("{}: {} (not in import)", <<component, Unwrap(imp)>>)
              ELSE Line("{}: Not available in either", <<component>>)

\* compare_versions without the (None, Some) arm.
compare_versions_no_remote_arm(component, curr, imp) ==
    IF IsSome(curr) /\ IsSome(imp)
    THEN IF Unwrap(curr) = Unwrap(imp)
         THEN Line("{}: {} (matches)", <<component, Unwrap(curr)>>)
         ELSE Line("{}: {} vs {} (different)",
                   <<component, Unwrap(curr), Unwrap(imp)>>)
    ELSE IF IsSome(curr)
         THEN Line("{}: {} (not in import)", <<component, Unwrap(curr)>>)
         ELSE Line("{}: Not available in either", <<component>>)

\* compare_versions comparing by prefix, as a version-aware comparison would
\* ("12.2" against "12.2.0").
compare_versions_by_prefix(component, curr, imp) ==
    IF IsSome(curr) /\ IsSome(imp)
    THEN IF StartsWith(Unwrap(imp), Unwrap(curr))
         THEN Line("{}: {} (matches)", <<component, Unwrap(curr)>>)
         ELSE Line("{}: {} vs {} (different)",
                   <<component, Unwrap(curr), Unwrap(imp)>>)
    ELSE IF IsSome(curr)
         THEN Line("{}: {} (not in import)", <<component, Unwrap(curr)>>)
         ELSE IF IsSome(imp)
              THEN Line("{}: {} (missing locally)", <<component, Unwrap(imp)>>)
              ELSE Line("{}: Not available in either", <<component>>)

\* compare_versions printing the values trimmed.
compare_versions_trimmed(component, curr, imp) ==
    IF IsSome(curr) /\ IsSome(imp)
    THEN IF Unwrap(curr) = Unwrap(imp)
         THEN Line("{}: {} (matches)", <<component, Trim(Unwrap(curr))>>)
         ELSE Line("{}: {} vs {} (different)",
                   <<component, Trim(Unwrap(curr)), Trim(Unwrap(imp))>>)
    ELSE IF IsSome(curr)
         THEN Line("{}: {} (not in import)", <<component, Trim(Unwrap(curr))>>)
         ELSE IF IsSome(imp)
              THEN Line("{}: {} (missing locally)",
                        <<component, Trim(Unwrap(imp))>>)
              ELSE Line("{}: Not available in either", <<component>>)

compare_versions(component, curr, imp) ==
    IF IsSome(curr) /\ IsSome(imp)
    THEN IF Unwrap(curr) = Unwrap(imp)
         THEN Line("{}: {} (matches)", <<component, Unwrap(curr)>>)
         ELSE Line("{}: {} vs {} (different)",
                   <<component, Unwrap(curr), Unwrap(imp)>>)
    ELSE IF IsSome(curr)
         THEN Line("{}: {} (not in import)", <<component, Unwrap(curr)>>)
         ELSE IF IsSome(imp)
              THEN Line("{}: {} (missing locally)", <<component, Unwrap(imp)>>)
              ELSE Line("{}: Not available in either", <<component>>)

\* compare_environments with the framework block before the CUDA block.
compare_environments_frameworks_first(cur, imp) ==
    <<Line("=== Environment Comparison ===", << >>),
      Line("System Comparison:", << >>),
      Line("Current:  {} ({})", <<cur.system_info.os, cur.system_info.arch>>),
      Line("Imported: {} ({})", <<imp.system_info.os, imp.system_info.arch>>)>>
    \o (IF cur.system_info.os # imp.system_info.os
        THEN <<Line("Different operating systems detected!", << >>)>>
        ELSE << >>)
    \o <<Line("Framework Comparison:", << >>),
         compare_versions("TensorFlow", cur.frameworks.tensorflow,
                          imp.frameworks.tensorflow),
         compare_versions("PyTorch", cur.frameworks.pytorch,
                          imp.frameworks.pytorch),
         Line("CUDA Comparison:", << >>),
         compare_versions("Driver", cur.cuda_info.driver_version,
                          imp.cuda_info.driver_version),
         compare_versions("CUDA", cur.cuda_info.cuda_version,
                          imp.cuda_info.cuda_version),
         compare_versions("cuDNN", cur.cuda_info.cudnn_version,
                          imp.cuda_info.cudnn_version),
         Line("Import Info:", << >>),
         Line("Exported: {}", <<FormatTimestamp(imp.timestamp)>>),
         Line("Hostname: {}", <<imp.hostname>>)>>

\* compare_environments telling the local host and the number of GPUs too.
compare_environments_with_devices(cur, imp) ==
    <<Line("=== Environment Comparison ===", << >>),
      Line("System Comparison:", << >>),
      Line("Current:  {} ({})", <<cur.system_info.os, cur.system_info.arch>>),
      Line("Imported: {} ({})", <<imp.system_info.os, imp.system_info.arch>>)>>
    \o (IF cur.system_info.os # imp.system_info.os
        THEN <<Line("Different operating systems detected!", << >>)>>
        ELSE << >>)
    \o <<Line("CUDA Comparison:", << >>),
         compare_versions("Driver", cur.cuda_info.driver_version,
                          imp.cuda_info.driver_version),
         compare_versions("CUDA", cur.cuda_info.cuda_version,
                          imp.cuda_info.cuda_version),
         compare_versions("cuDNN", cur.cuda_info.cudnn_version,
                          imp.cuda_info.cudnn_version),
         Line("GPUs: {} vs {}", <<DecimalString(Len(cur.cuda_info.gpus)),
                                  DecimalString(Len(imp.cuda_info.gpus))>>),
         Line("Framework Comparison:", << >>),
         compare_versions("TensorFlow", cur.frameworks.tensorflow,
                          imp.frameworks.tensorflow),
         compare_versions("PyTorch", cur.frameworks.pytorch,
                          imp.frameworks.pytorch),
         Line("Import Info:", << >>),
         Line("Exported: {}", <<FormatTimestamp(imp.timestamp)>>),
         Line("Hostname: {}", <<imp.hostname>>)>>

compare_environments(cur, imp) ==
    <<Line("=== Environment Comparison ===", << >>),
      Line("System Comparison:", << >>),
      Line("Current:  {} ({})", <<cur.system_info.os, cur.system_info.arch>>),
      Line("Imported: {} ({})", <<imp.system_info.os, imp.system_info.arch>>)>>
    \o (IF cur.system_info.os # imp.system_info.os
        THEN <<Line("Different operating systems detected!", << >>)>>
        ELSE << >>)
    \o <<Line("CUDA Comparison:", << >>),
         compare_versions("Driver", cur.cuda_info.driver_version,
                          imp.cuda_info.driver_version),
         compare_versions("CUDA", cur.cuda_info.cuda_version,
                          imp.cuda_info.cuda_version),
         compare_versions("cuDNN", cur.cuda_info.cudnn_version,
                          imp.cuda_info.cudnn_version),
         Line("Framework Comparison:", << >>),
         compare_versions("TensorFlow", cur.frameworks.tensorflow,
                          imp.frameworks.tensorflow),
         compare_versions("PyTorch", cur.frameworks.pytorch,
                          imp.frameworks.pytorch),
         Line("Import Info:", << >>),
         Line("Exported: {}", <<FormatTimestamp(imp.timestamp)>>),
         Line("Hostname: {}", <<imp.hostname>>)>>

---------------------------------------------------------------------------
(* Comparing two configurations: the inputs are drawn at the start, the    *)
(* one step is compare_environments.                                       *)

OsPool == {"Ubuntu 22.04", "Windows 11"}

DriverPool == {None, Some("535.104.05\n")}

CudaPool == {None, Some("12.2"), Some("12.1"), Some("12.2.0"), Some("V12.2")}

CudnnPool == {None, Some("8.9.2")}

TensorflowPool == {None, Some("2.15.0")}

PytorchPool == {None, Some("2.1.0"), Some("")}

ReconcileConfigs ==
    {EnvironmentConfig(
         SystemInfo(os, "x86_64", "cpu0", Finite(16), None),
         CudaInfo(driver, cuda, cudnn, << >>),
         FrameworkInfo(tf, torch),
         DateTime(7, 0), "host1") :
       os \in OsPool, driver \in DriverPool, cuda \in CudaPool,
       cudnn \in CudnnPool, tf \in TensorflowPool, torch \in PytorchPool}

\* The facade variables while no facade runs.
FacadeIdle ==
    /\ facade = ""
    /\ platform = ""
    /\ stage = 0
    /\ candidates = 0
    /\ attempts = << >>
    /\ result = None

\* The parser variables while no parser is looked at alone.
ParserIdle ==
    /\ parsing = [parser |-> "", package |-> "", text |-> ""]
    /\ extracted = None

\* The codec variables while nothing is exported.
CodecIdle ==
    /\ file = None
    /\ exported = NoConfig

\* The variables of collect_environment_config while it is not followed step
\* by step.
BuilderIdle ==
    /\ operation = ""
    /\ calls = << >>
    /\ built = << >>

\* The variables of main while an operation of the library is looked at alone.
MainIdle ==
    /\ arguments = << >>
    /\ ran = << >>
    /\ status = None

\* The variables of run_command while it is not looked at alone.
ProbeIdle ==
    /\ spawned = << >>
    /\ returned = None

\* The variables the operations of export, import and detection leave alone.
RestIdle == BuilderIdle /\ MainIdle /\ ProbeIdle

ReconcileInit ==
    /\ pc = "compare"
    /\ FacadeIdle
    /\ ParserIdle
    /\ CodecIdle
    /\ current \in ReconcileConfigs
    /\ imported \in ReconcileConfigs
    /\ printed = << >>
    /\ RestIdle

Reconcile ==
    /\ pc = "compare"
    /\ printed' = printed \o compare_environments(current, imported)
    /\ pc' = "compared"
    /\ UNCHANGED <<current, imported, facadeVars, parserVars, codecVars,
                 builderVars, mainVars, probeVars>>

ReconcileNext == Reconcile

SpecReconcile == ReconcileInit /\ [][ReconcileNext]_vars

---------------------------------------------------------------------------
(* Reading the comparison's output *)

TrackedFields == <<"Driver", "CUDA", "cuDNN", "TensorFlow", "PyTorch">>

FieldOf(cfg, component) ==
    CASE component = "Driver" -> cfg.cuda_info.driver_version
      [] component = "CUDA" -> cfg.cuda_info.cuda_version
      [] component = "cuDNN" -> cfg.cuda_info.cudnn_version
      [] component = "TensorFlow" -> cfg.frameworks.tensorflow
      [] component = "PyTorch" -> cfg.frameworks.pytorch

\* The classification a printed line states, "" for a line that states none.
Classification(line) ==
    CASE line.fmt = "{}: {} (matches)" -> "Match"
      [] line.fmt = "{}: {} vs {} (different)" -> "Mismatch"
      [] line.fmt = "{}: {} (not in import)" -> "LocalOnly"
      [] line.fmt = "{}: {} (missing locally)" -> "RemoteOnly"
      [] line.fmt = "{}: Not available in either" -> "BothAbsent"
      [] OTHER -> ""

\* The positions in the output of the entries about one component.
EntriesOf(out, component) ==
    {i \in 1..Len(out) :
        Classification(out[i]) # "" /\ out[i].args[1] = component}

\* The classification table of the design, for two optional values.
TableClass(l, r) ==
    IF l # None /\ r # None
    THEN (IF l = r THEN "Match" ELSE "Mismatch")
    ELSE IF l # None THEN "LocalOnly"
         ELSE IF r # None THEN "RemoteOnly" ELSE "BothAbsent"

\* C3: every tracked field gets exactly one entry, classified by the table:
\* equal -> Match, different -> Mismatch, only local -> LocalOnly, only
\* remote -> RemoteOnly, neither -> BothAbsent.
C3_ClassifiedByTable ==
    pc = "compared" =>
        \A k \in 1..Len(TrackedFields) :
            LET f == TrackedFields[k]
                e == EntriesOf(printed, f)
            IN  /\ Cardinality(e) = 1
                /\ \A i \in e :
                      Classification(printed[i])
                          = TableClass(FieldOf(current, f), FieldOf(imported, f))

ClassOfField(out, component) ==
    Classification(out[CHOOSE i \in EntriesOf(out, component) : TRUE])

\* A comparison whose five entries show all five classifications.
C3_Witness ==
    /\ pc = "compared"
    /\ ClassOfField(printed, "Driver") = "Match"
    /\ ClassOfField(printed, "CUDA") = "Mismatch"
    /\ ClassOfField(printed, "cuDNN") = "LocalOnly"
    /\ ClassOfField(printed, "TensorFlow") = "RemoteOnly"
    /\ ClassOfField(printed, "PyTorch") = "BothAbsent"

\* The classification of the same pair with the two sides exchanged.
SwappedClass(c) ==
    CASE c = "LocalOnly" -> "RemoteOnly"
      [] c = "RemoteOnly" -> "LocalOnly"
      [] OTHER -> c

\* C7: comparing with the two arguments exchanged keeps Match, Mismatch and
\* BothAbsent and exchanges LocalOnly with RemoteOnly, for every field.
C7_SwapExchangesOneSided ==
    pc = "compared" =>
        LET back == compare_environments(imported, current)
        IN  \A k \in 1..Len(TrackedFields) :
                ClassOfField(back, TrackedFields[k])
                    = SwappedClass(ClassOfField(printed, TrackedFields[k]))

\* The pair (Some("12.2"), None) of the design's example, and a pair that is
\* RemoteOnly, in one comparison.
C7_Witness ==
    /\ pc = "compared"
    /\ current.cuda_info.cuda_version = Some("12.2")
    /\ imported.cuda_info.cuda_version = None
    /\ ClassOfField(printed, "CUDA") = "LocalOnly"
    /\ ClassOfField(compare_environments(imported, current), "CUDA") = "RemoteOnly"
    /\ ClassOfField(printed, "PyTorch") = "RemoteOnly"

\* Two strings with the same characters at the same places.
SameCharacters(a, b) ==
    /\ Len(a) = Len(b)
    /\ \A i \in 1..Len(a) : SubSeq(a, i, i) = SubSeq(b, i, i)

\* C8: with both sides present the entry is Match exactly when the strings
\* agree character for character, and Mismatch otherwise; "12.2" against
\* "12.2.0" and against "V12.2" are Mismatch.
C8_ExactStringEquality ==
    pc = "compared" =>
        \A k \in 1..Len(TrackedFields) :
            LET f == TrackedFields[k]
                l == FieldOf(current, f)
                r == FieldOf(imported, f)
            IN  (IsSome(l) /\ IsSome(r)) =>
                    /\ ClassOfField(printed, f) \in {"Match", "Mismatch"}
                    /\ ClassOfField(printed, f) = "Match"
                          <=> SameCharacters(Unwrap(l), Unwrap(r))

C8_Witness ==
    /\ pc = "compared"
    /\ current.cuda_info.cuda_version = Some("12.2")
    /\ imported.cuda_info.cuda_version \in {Some("12.2.0"), Some("V12.2")}
    /\ ClassOfField(printed, "CUDA") = "Mismatch"

\* C9: an entry shows the values as they are: Mismatch the local and the
\* remote string, Match and LocalOnly the local one, RemoteOnly the remote one.
C9_ValuesRetained ==
    pc = "compared" =>
        \A k \in 1..Len(TrackedFields) :
            LET f == TrackedFields[k]
                l == FieldOf(current, f)
                r == FieldOf(imported, f)
                e == printed[CHOOSE i \in EntriesOf(printed, f) : TRUE]
                c == Classification(e)
            IN  /\ c = "Mismatch" => e.args = <<f, Unwrap(l), Unwrap(r)>>
                /\ c \in {"Match", "LocalOnly"} => e.args = <<f, Unwrap(l)>>
                /\ c = "RemoteOnly" => e.args = <<f, Unwrap(r)>>

\* The design's scenario: cuda "12.2" against "12.1", pytorch absent against
\* "2.1.0"; the driver strings carry their line end.
C9_Witness ==
    /\ pc = "compared"
    /\ \E i \in 1..Len(printed) :
          printed[i] = Line("{}: {} vs {} (different)", <<"CUDA", "12.2", "12.1">>)
    /\ \E i \in 1..Len(printed) :
          printed[i] = Line("{}: {} (missing locally)", <<"PyTorch", "2.1.0">>)
    /\ \E i \in 1..Len(printed) :
          printed[i] = Line("{}: {} (matches)", <<"Driver", "535.104.05\n">>)

\* The output's lines restricted to those at the positions in idx, in order.
RECURSIVE Restrict(_, _, _)
Restrict(out, idx, i) ==
    IF i > Len(out) THEN << >>
    ELSE (IF i \in idx THEN <<out[i]>> ELSE << >>) \o Restrict(out, idx, i + 1)

\* What the output is about, line by line: "System" for the two lines that
\* show the operating systems, a component for its entry.
Subjects(out) ==
    LET idx == {i \in 1..Len(out) :
                   \/ Classification(out[i]) # ""
                   \/ out[i].fmt \in {"Current:  {} ({})", "Imported: {} ({})"}}
        kept == Restrict(out, idx, 1)
    IN  [i \in 1..Len(kept) |->
            IF Classification(kept[i]) # "" THEN kept[i].args[1] ELSE "System"]

\* C10: the entries come in the order system, driver, CUDA, cuDNN, TensorFlow,
\* PyTorch, each once, whatever is present or absent.
C10_FixedOrder ==
    pc = "compared" =>
        Subjects(printed) = <<"System", "System">> \o TrackedFields

\* A comparison in which the first fields are absent and the last present.
C10_Witness ==
    /\ pc = "compared"
    /\ current.cuda_info.driver_version = None
    /\ imported.cuda_info.driver_version = None
    /\ current.cuda_info.cuda_version = None
    /\ imported.cuda_info.cudnn_version = None
    /\ current.frameworks.pytorch # None
    /\ Len(printed) > 0

\* The configuration with other values in the fields the comparison does
\* not read: the GPU list, the CPU model, the total memory, the python
\* version.
OtherMachine(config) ==
    EnvironmentConfig(
        SystemInfo(config.system_info.os, config.system_info.arch,
                   "cpu1", Finite(64), Some("Python 3.11.4")),
        CudaInfo(config.cuda_info.driver_version, config.cuda_info.cuda_version,
                 config.cuda_info.cudnn_version,
                 <<GpuInfo("Tesla T4", Some(Finite(15360)), None)>>),
        config.frameworks, config.timestamp, config.hostname)

\* The configuration with another list of GPUs only.
OtherGpus(config) ==
    [config EXCEPT !.cuda_info.gpus = <<GpuInfo("Tesla T4", None, None),
                                        GpuInfo("Tesla T4", None, None)>>]

\* The configuration made at another time on a host of another name.
OtherStamp(config) ==
    [config EXCEPT !.timestamp = DateTime(99, 5), !.hostname = "elsewhere"]

\* Local configurations that differ from the one given in the fields named
\* by C28 only, and imported ones likewise.
LocalVariants(config) ==
    {config, OtherMachine(config), OtherGpus(config), OtherStamp(config),
     OtherStamp(OtherMachine(config))}

ImportedVariants(config) == {config, OtherMachine(config), OtherGpus(config)}

\* C28: the output of the comparison is the output of the comparison of any
\* two configurations that differ from the two compared in the GPU list, the
\* CPU model, the total memory, the python version and, for the local one,
\* the timestamp and the hostname only.
C28_OutputIndependent ==
    pc = "compared" =>
        \A cur \in LocalVariants(current), imp \in ImportedVariants(imported) :
            compare_environments(cur, imp) = printed

\* The two configurations compared differ in a capability, and the output is
\* that of the comparison on another machine at another time.
C28_Witness ==
    /\ pc = "compared"
    /\ current.cuda_info.cuda_version # imported.cuda_info.cuda_version
    /\ current.system_info.os # imported.system_info.os
    /\ OtherStamp(OtherMachine(current)) # current
    /\ compare_environments(OtherStamp(OtherMachine(current)), OtherGpus(imported))
          = printed

---------------------------------------------------------------------------
(* The detection facades (lib.rs 127-498, 573-575)                         *)
(* A facade goes through its strategies in the order of its code.  A       *)
(* "command" strategy is one run_command; a "scan" strategy is a loop over *)
(* the files a directory list or a walk yields, each file one probe.       *)

Command(text, parser, package) ==
    [kind |-> "command", probe |-> text, parser |-> parser, package |-> package]

Scan(place, parser) ==
    [kind |-> "scan", probe |-> place, parser |-> parser, package |-> ""]

Facades == {"driver", "toolkit", "cudnn", "tensorflow", "pytorch"}

Platforms == {"linux", "windows", "macos"}

\* get_nvidia_driver_version: run_command's result as it is.
DriverChain ==
    <<Command("nvidia-smi --query-gpu=driver_version --format=csv,noheader",
              "stdout", "")>>

TensorflowChain ==
    <<Command("python -c \"import tensorflow as tf; print(tf.__version__)\"",
              "import", ""),
      Command("python3 -c \"import tensorflow as tf; print(tf.__version__)\"",
              "import", ""),
      Command("pip show tensorflow", "pip", "tensorflow"),
      Command("pip3 show tensorflow", "pip", "tensorflow"),
      Command("conda list tensorflow", "conda", "tensorflow")>>

PytorchChain ==
    <<Command("python -c \"import torch; print(torch.__version__)\"", "import", ""),
      Command("python3 -c \"import torch; print(torch.__version__)\"", "import", ""),
      Command("pip show torch", "pip", "torch"),
      Command("pip3 show torch", "pip", "torch"),
      Command("conda list pytorch", "conda", "pytorch"),
      Command("conda list torch", "conda", "torch")>>

\* The header scans of get_cudnn_version, by target_os (lib.rs 225-287).
CudnnScans(os) ==
    CASE os = "windows" ->
            <<Scan("PATH/cudnn_version.h", "header"),
              Scan("C:\\Program Files\\NVIDIA GPU Computing Toolkit\\CUDA", "header"),
              Scan("C:\\Program Files\\NVIDIA Corporation\\NVSMI", "header"),
              Scan("C:\\Windows\\System32", "header")>>
      [] os = "linux" ->
            <<Scan("LD_LIBRARY_PATH/cudnn_version.h", "header"),
              Scan("/usr/local/cuda", "header"),
              Scan("/opt/cuda", "header"),
              Scan("/usr/include", "header"),
              Scan("/usr/local/include", "header")>>
      [] OTHER -> << >>

CudnnChain(os) ==
    CudnnScans(os)
    \o <<Command("python -c \"import torch; print(torch.backends.cudnn.version())\"",
                 "print", ""),
         Command("python3 -c \"import torch; print(torch.backends.cudnn.version())\"",
                 "print", ""),
         Command("python -c \"import tensorflow as tf; print(tf.sysconfig.get_build_info()['cudnn_version'])\"",
                 "print", ""),
         Command("python3 -c \"import tensorflow as tf; print(tf.sysconfig.get_build_info()['cudnn_version'])\"",
                 "print", "")>>

\* The nvcc scans of get_cuda_toolkit_version, by target_os (lib.rs 414-495).
ToolkitScans(os) ==
    CASE os = "windows" ->
            <<Scan("PATH/nvcc.exe", "release"),
              Scan("C:\\Program Files\\NVIDIA GPU Computing Toolkit\\CUDA", "release")>>
      [] os = "linux" ->
            <<Scan("PATH/nvcc", "release"),
              Scan("/usr/local/cuda", "release"),
              Scan("/opt/cuda", "release")>>
      [] OTHER -> << >>

ToolkitChain(os) ==
    <<Command("nvcc --version", "nvcc", ""),
      Command("/usr/local/cuda/bin/nvcc --version", "nvcc", ""),
      Command("/opt/cuda/bin/nvcc --version", "nvcc", "")>>
    \o (IF os = "linux"
        THEN <<Command("cat /usr/local/cuda/version.txt", "version.txt", "")>>
        ELSE << >>)
    \o <<Command("python -c \"import torch; print(torch.version.cuda)\"", "print", ""),
         Command("python3 -c \"import torch; print(torch.version.cuda)\"", "print", ""),
         Command("python -c \"import tensorflow as tf; print(tf.sysconfig.get_build_info()['cuda_version'])\"",
                 "print", ""),
         Command("python3 -c \"import tensorflow as tf; print(tf.sysconfig.get_build_info()['cuda_version'])\"",
                 "print", "")>>
    \o ToolkitScans(os)

Chain(f, os) ==
    CASE f = "driver" -> DriverChain
      [] f = "toolkit" -> ToolkitChain(os)
      [] f = "cudnn" -> CudnnChain(os)
      [] f = "tensorflow" -> TensorflowChain
      [] f = "pytorch" -> PytorchChain

\* What a strategy makes of the text of its successful probe.
Parse(strategy, text) ==
    CASE strategy.parser = "stdout" -> Some(text)
      [] strategy.parser = "import" -> parse_import_output(text)
      [] strategy.parser = "pip" -> parse_pip_show(text)
      [] strategy.parser = "conda" -> parse_conda_list(strategy.package, text)
      [] strategy.parser = "print" -> parse_python_print(text)
      [] strategy.parser = "nvcc" -> parse_nvcc_version(text)
      [] strategy.parser = "release" -> parse_nvcc_release(text)
      [] strategy.parser = "version.txt" -> parse_version_txt(text)
      [] strategy.parser = "header" -> parse_cudnn_header(text)

\* The Err a facade ends with when no strategy is left.
not_found_default(f) == Ok("")

not_found(f) ==
    CASE f = "toolkit" -> Err("CUDA Toolkit not found")
      [] f = "cudnn" -> Err("cuDNN version not found")
      [] f = "tensorflow" -> Err("TensorFlow not found or not installed")
      [] f = "pytorch" -> Err("PyTorch not found or not installed")
      [] OTHER -> Err("")

---------------------------------------------------------------------------
(* What the machine answers to a probe: run_command's Err (the process     *)
(* could not be started or ended with a non-zero status), a file that      *)
(* cannot be read, or the text of the standard output / of the file.       *)

ProbeFailed == Err("Command failed")

NvccText == "Cuda compilation tools, release 12.2, V12.2.140\n"

NvccTextOld == "Cuda compilation tools, V11.8.89\n"

HeaderText ==
    "#define CUDNN_MAJOR 8\n#define CUDNN_MINOR 9\n#define CUDNN_PATCHLEVEL 2\n"

HeaderTextShort == "#define CUDNN_MAJOR 8\n#define CUDNN_MINOR 9\n"

Outcomes(strategy) ==
    {ProbeFailed} \cup
    CASE strategy.parser = "stdout" ->
            {Ok("535.104.05\n"), Ok("535.104.05\n535.104.05\n"), Ok("")}
      [] strategy.parser = "import" -> {Ok("2.15.0\n"), Ok("\n")}
      [] strategy.parser = "pip" ->
            {Ok("Name: " \o strategy.package \o "\nVersion: 2.14.1\n"),
             Ok("WARNING: Package(s) not found: " \o strategy.package \o "\n")}
      [] strategy.parser = "conda" ->
            {Ok("# Name  Version\n" \o strategy.package \o "  2.13.0  py311\n"),
             Ok("# Name  Version\n")}
      [] strategy.parser = "print" -> {Ok("8902\n"), Ok("None\n")}
      [] strategy.parser = "nvcc" -> {Ok(NvccText), Ok(NvccTextOld), Ok("nvcc\n")}
      [] strategy.parser = "release" -> {Ok(NvccText), Ok(NvccTextOld)}
      [] strategy.parser = "version.txt" -> {Ok("CUDA Version 10.1.243\n"), Ok("")}
      [] strategy.parser = "header" -> {Ok(HeaderText), Ok(HeaderTextShort)}

\* The files one run of a facade meets in its scans, at most.
MaxCandidates == 2

---------------------------------------------------------------------------
(* A facade's run, probe by probe *)

ReconcileIdle ==
    /\ current = NoConfig
    /\ imported = NoConfig
    /\ printed = << >>

FacadeInit ==
    /\ pc = "detect"
    /\ facade \in Facades
    /\ platform \in Platforms
    /\ stage = 1
    /\ candidates = 0
    /\ attempts = << >>
    /\ result = None
    /\ ReconcileIdle
    /\ ParserIdle
    /\ CodecIdle
    /\ RestIdle

\* The token a probe's outcome yields under its strategy's parser.
Parsed(strategy, outcome) ==
    IF outcome.ok THEN Parse(strategy, outcome.val) ELSE None

\* Whether the facade returns with the token just parsed (return Ok(..)).
returns_never(parsed) == FALSE

returns_token(parsed) == IsSome(parsed)

\* The facade stays at the strategy it is at.
GoOn_again(next) ==
    /\ stage' = stage
    /\ result' = None
    /\ pc' = pc

\* The facade goes on at strategy next, or ends with its Err when none is left.
GoOn(next) ==
    /\ stage' = next
    /\ IF next > Len(Chain(facade, platform))
       THEN result' = Some(not_found(facade)) /\ pc' = "returned"
       ELSE result' = None /\ pc' = pc

\* One probe with its outcome, a probe that failed ending the facade with
\* its Err.
Probe_or_abort(outcome, next) ==
    LET strategy == Chain(facade, platform)[stage]
        parsed == Parsed(strategy, outcome)
    IN  /\ attempts' = Append(attempts, [stage |-> stage, outcome |-> outcome,
                                         parsed |-> parsed])
        /\ IF returns_token(parsed) \/ ~outcome.ok
           THEN /\ result' = Some(IF outcome.ok THEN Ok(Unwrap(parsed)) ELSE outcome)
                /\ pc' = "returned"
                /\ stage' = stage
           ELSE GoOn(next)

\* One probe with its outcome: the token returned, or the probe discarded.
Probe(outcome, next) ==
    LET strategy == Chain(facade, platform)[stage]
        parsed == Parsed(strategy, outcome)
    IN  /\ attempts' = Append(attempts, [stage |-> stage, outcome |-> outcome,
                                         parsed |-> parsed])
        /\ IF returns_token(parsed)
           THEN /\ result' = Some(Ok(Unwrap(parsed)))
                /\ pc' = "returned"
                /\ stage' = stage
           ELSE GoOn(next)

Running ==
    /\ pc = "detect"
    /\ result = None
    /\ stage <= Len(Chain(facade, platform))

\* get_nvidia_driver_version: the result of its one run_command.
DriverQuery ==
    /\ Running
    /\ facade = "driver"
    /\ \E outcome \in Outcomes(Chain(facade, platform)[stage]) :
          /\ attempts' = Append(attempts, [stage |-> stage, outcome |-> outcome,
                                           parsed |-> ResultOk(outcome)])
          /\ result' = Some(outcome)
    /\ pc' = "returned"
    /\ UNCHANGED <<facade, platform, stage, candidates, reconcileVars, parserVars, codecVars,
                 builderVars, mainVars, probeVars>>

\* A strategy that is one command.
RunCommand ==
    /\ Running
    /\ facade # "driver"
    /\ Chain(facade, platform)[stage].kind = "command"
    /\ \E outcome \in Outcomes(Chain(facade, platform)[stage]) :
          Probe(outcome, stage + 1)
    /\ UNCHANGED <<facade, platform, candidates, reconcileVars, parserVars, codecVars,
                 builderVars, mainVars, probeVars>>

\* A scan meets one more file of the name it looks for.
ScanFile ==
    /\ Running
    /\ Chain(facade, platform)[stage].kind = "scan"
    /\ candidates < MaxCandidates
    /\ candidates' = candidates + 1
    /\ \E outcome \in Outcomes(Chain(facade, platform)[stage]) :
          Probe(outcome, stage)
    /\ UNCHANGED <<facade, platform, reconcileVars, parserVars, codecVars,
                 builderVars, mainVars, probeVars>>

\* A scan ends: the directory list or the walk yields nothing more.
ScanEnds ==
    /\ Running
    /\ Chain(facade, platform)[stage].kind = "scan"
    /\ GoOn(stage + 1)
    /\ UNCHANGED <<facade, platform, candidates, attempts, reconcileVars, parserVars, codecVars,
                 builderVars, mainVars, probeVars>>

FacadeNext == DriverQuery \/ RunCommand \/ ScanFile \/ ScanEnds

SpecFacade == FacadeInit /\ [][FacadeNext]_vars

\* The same with every probe returning: a facade that can take a step takes
\* one (its loops are for loops over finite lists and over a directory walk).
SpecFacadeLive == SpecFacade /\ WF_vars(FacadeNext)

---------------------------------------------------------------------------
(* Reading a facade's run *)

\* The token of the i-th probe made, as its strategy's parser gave it: None
\* when the probe failed or its text parsed to nothing.
TokenOf(i) == attempts[i].parsed

\* The strategies that are one command: each is attempted when it is reached.
CommandStages ==
    {k \in 1..Len(Chain(facade, platform)) :
        Chain(facade, platform)[k].kind = "command"}

Attempted(k) == \E i \in 1..Len(attempts) : attempts[i].stage = k

\* C1: when every probe of the chain failed or gave text that does not parse,
\* the facade returns Err (None in the snapshot); an Ok it returns is the
\* token parsed from one of its probes, never another string.
C1_ExhaustedIsNotDetected ==
    pc = "returned" =>
        /\ IsSome(result)
        /\ (\A i \in 1..Len(attempts) : TokenOf(i) = None)
              => /\ ~Unwrap(result).ok
                 /\ ResultOk(Unwrap(result)) = None
                 /\ \A k \in CommandStages : Attempted(k)
        /\ Unwrap(result).ok
              => \E i \in 1..Len(attempts) : TokenOf(i) = Some(Unwrap(result).val)

\* cuDNN on linux: a header that cannot be read, one without its patch level,
\* and the four python probes failed or printing None.
C1_Witness ==
    /\ pc = "returned"
    /\ facade = "cudnn"
    /\ platform = "linux"
    /\ Len(attempts) = 6
    /\ \A i \in 1..Len(attempts) : TokenOf(i) = None
    /\ \E i \in 1..Len(attempts) : attempts[i].outcome = Ok(HeaderTextShort)
    /\ \E i \in 1..Len(attempts) : attempts[i].outcome = Ok("None\n")
    /\ \E i \in 1..Len(attempts) : ~attempts[i].outcome.ok
    /\ result = Some(Err("cuDNN version not found"))

\* C2: the facade returns the token of the first probe, in the chain's order,
\* that succeeds and parses: every probe before it failed or parsed to
\* nothing, the strategies before it were attempted in order, and none is
\* attempted after it.
C2_FirstTokenWins ==
    LET n == Len(attempts)
    IN  /\ \A i \in 1..(n - 1) : TokenOf(i) = None
        /\ \A i \in 1..(n - 1) :
              /\ attempts[i].stage <= attempts[i + 1].stage
              /\ Chain(facade, platform)[attempts[i].stage].kind = "command"
                    => attempts[i].stage < attempts[i + 1].stage
        /\ (n > 0 /\ TokenOf(n) # None)
              => /\ result = Some(Ok(Unwrap(TokenOf(n))))
                 /\ pc = "returned"
        /\ (IsSome(result) /\ Unwrap(result).ok)
              => /\ n > 0
                 /\ TokenOf(n) = Some(Unwrap(result).val)
                 /\ \A k \in CommandStages : k < attempts[n].stage => Attempted(k)

\* A failed command, a command whose text parses to nothing, then the token
\* "1.2.3"-like of the third, with strategies left that are never attempted.
C2_Witness ==
    /\ pc = "returned"
    /\ facade = "pytorch"
    /\ Len(attempts) = 3
    /\ ~attempts[1].outcome.ok
    /\ attempts[2].outcome = Ok("\n")
    /\ result = Some(Ok("2.14.1"))
    /\ attempts[3].stage = 3
    /\ Len(Chain(facade, platform)) = 6

\* A complete normalized token: one line, not empty, no whitespace at its ends.
Normalized(token) ==
    /\ token # ""
    /\ ~Contains(token, "\n")
    /\ Trim(token) = token

\* C16: the Ok a facade returns holds a normalized token: not empty, one
\* line, no whitespace at its ends.
C16_DetectedIsNormalized ==
    (pc = "returned" /\ IsSome(result) /\ Unwrap(result).ok) =>
        Normalized(Unwrap(result).val)

\* The four facades that parse their probes do return such a token.
C16_ParsedIsNormalized ==
    (pc = "returned" /\ facade # "driver" /\ IsSome(result) /\ Unwrap(result).ok) =>
        Normalized(Unwrap(result).val)

\* The place of a strategy in the ranking: 1 for a question put to the
\* language runtime (python -c ...), 2 for the metadata of a package manager
\* (pip show, conda list), 3 for a header file looked for on the disk, 0 for
\* the strategies the ranking does not name (the tool's own --version, its
\* version.txt, the scans for the tool).
Rank(strategy) ==
    CASE strategy.parser \in {"import", "print"} -> 1
      [] strategy.parser \in {"pip", "conda"} -> 2
      [] strategy.parser = "header" -> 3
      [] OTHER -> 0

RankOf(i) == Rank(Chain(facade, platform)[attempts[i].stage])

\* C22: in the order the strategies are attempted, none of a lower place in
\* the ranking comes before one of a higher place: runtime introspection
\* before package metadata, both before header files.
C22_AttemptedByRank ==
    \A i \in 1..Len(attempts), j \in 1..Len(attempts) :
        (i < j /\ RankOf(i) > 0 /\ RankOf(j) > 0) => RankOf(i) <= RankOf(j)

\* It is so for the two framework facades.
C22_FrameworksByRank ==
    facade \in {"tensorflow", "pytorch"} => C22_AttemptedByRank

\* No strategy that is one command was attempted twice, and the strategies
\* were attempted in the order of the chain.
NoRetry ==
    \A i \in 1..Len(attempts), j \in 1..Len(attempts) :
        i < j =>
            /\ attempts[i].stage <= attempts[j].stage
            /\ attempts[i].stage = attempts[j].stage
                  => Chain(facade, platform)[attempts[i].stage].kind = "scan"

\* C26: each command of the chain is attempted at most once, no strategy is
\* gone back to, and the facade returns in the end, with Ok or with Err.
C26_TerminatesWithoutRetry ==
    /\ [](NoRetry /\ Len(attempts) <= Len(Chain(facade, platform)) + MaxCandidates)
    /\ <>(pc = "returned" /\ IsSome(result))

\* The toolkit facade on linux returns its Err after its eight commands, each
\* attempted once, and the files of its scans.
C26_Witness ==
    /\ pc = "returned"
    /\ facade = "toolkit"
    /\ platform = "linux"
    /\ result = Some(Err("CUDA Toolkit not found"))
    /\ Len(attempts) = 8 + MaxCandidates
    /\ \A k \in CommandStages : Cardinality({i \in 1..Len(attempts) : attempts[i].stage = k}) = 1

\* C25: a probe that failed (the command could not be started or ended with
\* a status other than 0, the file could not be read) or whose text gave no
\* token does not end a facade of several strategies: after it the facade is
\* still running, at the same scan or at a later strategy, or it has returned
\* its Err with the whole chain behind it; and the Ok of a facade is the
\* token of its last probe, whatever failed before.
C25_FailuresDoNotAbort ==
    LET n == Len(attempts)
    IN  facade \in Facades \ {"driver"} =>
            /\ (n > 0 /\ TokenOf(n) = None) =>
                  \/ pc = "detect" /\ result = None /\ stage >= attempts[n].stage
                  \/ /\ pc = "returned"
                     /\ stage = Len(Chain(facade, platform)) + 1
                     /\ \A k \in CommandStages : Attempted(k)
            /\ \A i \in 1..(n - 1) : attempts[i + 1].stage >= attempts[i].stage
            /\ (pc = "returned" /\ ~Unwrap(result).ok) =>
                  stage = Len(Chain(facade, platform)) + 1

\* cuDNN on linux: a header that cannot be read, a header with no patch
\* level in the same scan, a python that cannot be started, then the token
\* of the next python probe.
C25_Witness ==
    /\ pc = "returned"
    /\ facade = "cudnn"
    /\ platform = "linux"
    /\ Len(attempts) = 4
    /\ attempts[1].outcome = ProbeFailed
    /\ attempts[2].outcome = Ok(HeaderTextShort)
    /\ attempts[2].stage = attempts[1].stage
    /\ attempts[3].outcome = ProbeFailed
    /\ Chain(facade, platform)[attempts[3].stage].kind = "command"
    /\ result = Some(Ok("8902"))

\* C24: on the output of one nvcc --version command, the capture of
\* "release <major>.<minor>" is the token whenever that pattern matches,
\* whether "V<major>.<minor>.<patch>" matches or not; the capture of the V
\* pattern is the token when the release pattern does not match; when neither
\* matches there is no token from this strategy and the facade is at the
\* strategy after it.
C24_PatternPriority ==
    \A i \in 1..Len(attempts) :
        LET at == attempts[i].stage
            text == attempts[i].outcome.val
            primary == CapturePair(text, "release ")
            alternate == CaptureTriple(text, "V")
        IN  (Chain(facade, platform)[at].parser = "nvcc" /\ attempts[i].outcome.ok) =>
                /\ IsSome(primary) =>
                      /\ TokenOf(i) = primary
                      /\ result = Some(Ok(Unwrap(primary)))
                /\ (primary = None /\ IsSome(alternate)) =>
                      /\ TokenOf(i) = alternate
                      /\ result = Some(Ok(Unwrap(alternate)))
                /\ (primary = None /\ alternate = None) =>
                      /\ TokenOf(i) = None
                      /\ IF i < Len(attempts)
                         THEN attempts[i + 1].stage = at + 1
                         ELSE stage = at + 1

\* Both patterns match the text of the first command: the release capture is
\* the token.
C24_Witness ==
    /\ pc = "returned"
    /\ facade = "toolkit"
    /\ Len(attempts) = 1
    /\ attempts[1].outcome = Ok(NvccText)
    /\ CaptureTriple(NvccText, "V") = Some("12.2.140")
    /\ result = Some(Ok("12.2"))

\* Neither pattern matches the text of the first command; the V pattern alone
\* matches the text of the second.
C24_WitnessAlternate ==
    /\ pc = "returned"
    /\ facade = "toolkit"
    /\ Len(attempts) = 2
    /\ attempts[1].outcome = Ok("nvcc\n")
    /\ attempts[2].outcome = Ok(NvccTextOld)
    /\ attempts[2].stage = 2
    /\ result = Some(Ok("11.8.89"))

---------------------------------------------------------------------------
(* The parsers on their own: a text is drawn, the parser is applied to it. *)
(* A text is at most MaxLines lines of the parser's pool, each ended by a  *)
(* line feed.                                                              *)

MaxLines == 3

MaxHeaderLines == 4

Sentinel == "WARNING: Package(s) not found"

PipLines ==
    <<"Name: torch", "Version: 2.1.0", "WARNING: Package(s) not found: torch",
      "Requires: numpy", "", "WARNING: Ignoring invalid distribution">>

\* What python -c "import ..; print(..__version__)" may write to its standard
\* output: the version, alone or with blanks around it, a warning, nothing.
ImportLines ==
    <<"2.15.0", "  2.15.0 ", "WARNING: CUDA initialization skipped", "">>

CondaLines ==
    <<"# Name  Version  Build", "torch  2.1.0  py311", "torchvision  0.16.0  py311",
      "WARNING: Package(s) not found: torch", "">>

HeaderLines ==
    <<"#define CUDNN_MAJOR 8", "#define CUDNN_MINOR 9", "#define CUDNN_PATCHLEVEL 2",
      "#define CUDNN_VERSION (CUDNN_MAJOR * 1000 + CUDNN_MINOR * 100 + CUDNN_PATCHLEVEL)",
      "#define CUDNN_MAJOR", "">>

\* The lines one after the other, each with its line feed.
RECURSIVE JoinLines(_)
JoinLines(lines) ==
    IF lines = << >> THEN "" ELSE lines[1] \o "\n" \o JoinLines(Tail(lines))

\* The texts of at most max lines of the pool.
Texts(pool, max) ==
    {JoinLines([i \in 1..Len(pick) |-> pool[pick[i]]]) :
        pick \in UNION {[1..n -> 1..Len(pool)] : n \in 0..max}}

ParserInputs ==
    {[parser |-> "pip", package |-> "torch", text |-> t] : t \in Texts(PipLines, MaxLines)}
    \cup {[parser |-> "conda", package |-> "torch", text |-> t] :
             t \in Texts(CondaLines, MaxLines)}
    \cup {[parser |-> "header", package |-> "", text |-> t] :
             t \in Texts(HeaderLines, MaxHeaderLines)}
    \cup {[parser |-> "import", package |-> "", text |-> t] :
             t \in Texts(ImportLines, MaxLines)}

ParserInit ==
    /\ pc = "parse"
    /\ parsing \in ParserInputs
    /\ extracted = None
    /\ ReconcileIdle
    /\ FacadeIdle
    /\ CodecIdle
    /\ RestIdle

\* get_pip_package_version on the text run_command returned.
ParsePip ==
    /\ pc = "parse"
    /\ parsing.parser = "pip"
    /\ extracted' = parse_pip_show(parsing.text)
    /\ pc' = "parsed"
    /\ UNCHANGED <<parsing, reconcileVars, facadeVars, codecVars,
                 builderVars, mainVars, probeVars>>

\* get_conda_package_version on the text run_command returned.
ParseConda ==
    /\ pc = "parse"
    /\ parsing.parser = "conda"
    /\ extracted' = parse_conda_list(parsing.package, parsing.text)
    /\ pc' = "parsed"
    /\ UNCHANGED <<parsing, reconcileVars, facadeVars, codecVars,
                 builderVars, mainVars, probeVars>>

\* extract_cudnn_version_from_header on the content read.
ParseHeader ==
    /\ pc = "parse"
    /\ parsing.parser = "header"
    /\ extracted' = parse_cudnn_header(parsing.text)
    /\ pc' = "parsed"
    /\ UNCHANGED <<parsing, reconcileVars, facadeVars, codecVars,
                 builderVars, mainVars, probeVars>>

\* The python import probe of get_tensorflow_version / get_pytorch_version on
\* the text run_command returned.
ParseImport ==
    /\ pc = "parse"
    /\ parsing.parser = "import"
    /\ extracted' = parse_import_output(parsing.text)
    /\ pc' = "parsed"
    /\ UNCHANGED <<parsing, reconcileVars, facadeVars, codecVars,
                 builderVars, mainVars, probeVars>>

ParserNext == ParsePip \/ ParseConda \/ ParseHeader \/ ParseImport

SpecParser == ParserInit /\ [][ParserNext]_vars

---------------------------------------------------------------------------
(* Reading a parser's call *)

\* C5: a package-manager parser (pip show, conda list) returns no token for a
\* text that contains the package-not-found notice, whatever else the text
\* holds.
C5_SentinelRejected ==
    (pc = "parsed" /\ parsing.parser \in {"pip", "conda"}
        /\ Contains(parsing.text, Sentinel))
        => extracted = None

\* The same for pip show alone.
C5_PipRejectsSentinel ==
    (pc = "parsed" /\ parsing.parser = "pip" /\ Contains(parsing.text, Sentinel))
        => extracted = None

\* A pip text with the notice and a version line.
C5_PipWitness ==
    /\ pc = "parsed"
    /\ parsing.parser = "pip"
    /\ parsing.text = "WARNING: Package(s) not found: torch\nVersion: 2.1.0\n"
    /\ extracted = None

DirectiveNames == <<"CUDNN_MAJOR", "CUDNN_MINOR", "CUDNN_PATCHLEVEL">>

\* The lines of the text that are the directive  #define <name> ...
DirectiveLines(text, name) ==
    {i \in 1..Len(Lines(text)) :
        LET words == SplitWhitespace(Lines(text)[i])
        IN  Len(words) >= 2 /\ words[1] = "#define" /\ words[2] = name}

\* The number a directive line defines, "" when it defines none.
NumberDefined(line) ==
    LET words == SplitWhitespace(line)
    IN  IF Len(words) = 3 /\ DigitsEnd(words[3], 1) = Len(words[3]) + 1
        THEN words[3] ELSE ""

\* The number the first directive line of the name defines.
FirstNumber(text, name) ==
    LET at == DirectiveLines(text, name)
    IN  IF at = {} THEN ""
        ELSE NumberDefined(Lines(text)[CHOOSE i \in at : \A j \in at : i <= j])

\* C6: the header parser returns a token exactly when the three directives
\* are all in the text, in whatever order; the token is then
\* major.minor.patch of the numbers they define.
C6_HeaderNeedsAllThree ==
    (pc = "parsed" /\ parsing.parser = "header") =>
        LET text == parsing.text
            all == \A k \in 1..3 : DirectiveLines(text, DirectiveNames[k]) # {}
            numbers == \A k \in 1..3 : FirstNumber(text, DirectiveNames[k]) # ""
        IN  /\ IsSome(extracted) <=> all
            /\ numbers =>
                  extracted = Some(FirstNumber(text, "CUDNN_MAJOR") \o "."
                                   \o FirstNumber(text, "CUDNN_MINOR") \o "."
                                   \o FirstNumber(text, "CUDNN_PATCHLEVEL"))

\* The three directives in the order patch, major, minor, a blank line among
\* them.
C6_Witness ==
    /\ pc = "parsed"
    /\ parsing.parser = "header"
    /\ parsing.text
          = "#define CUDNN_PATCHLEVEL 2\n#define CUDNN_MAJOR 8\n\n#define CUDNN_MINOR 9\n"
    /\ extracted = Some("8.9.2")

\* Major and minor only, minor first: no token.
C6_WitnessMissing ==
    /\ pc = "parsed"
    /\ parsing.parser = "header"
    /\ parsing.text = "#define CUDNN_MINOR 9\n#define CUDNN_MAJOR 8\n"
    /\ extracted = None

\* A word of decimal digits only.
Numeric(word) ==
    /\ word # ""
    /\ \A i \in 1..Len(word) : IsDigit(SubSeq(word, i, i))

\* A directive of the header is there, and the last word of its line is no
\* number.
Garbled(text) ==
    \E k \in 1..3 :
        LET word == header_directive(text, "#define " \o DirectiveNames[k])
        IN  word # "" /\ ~Numeric(word)

\* C21: a header in which the line of one of the three directives carries no
\* number yields no token.
C21_GarbledHeaderRejected ==
    (pc = "parsed" /\ parsing.parser = "header" /\ Garbled(parsing.text))
        => extracted = None

\* What the code yields: a token whenever the three directives are there,
\* made of the last words of their lines, numbers or not.
C21_GarbledHeaderToken ==
    (pc = "parsed" /\ parsing.parser = "header" /\ Garbled(parsing.text)
        /\ \A k \in 1..3 : header_directive(parsing.text, "#define " \o DirectiveNames[k]) # "")
        => /\ IsSome(extracted)
           /\ \E k \in 1..3 : Contains(Unwrap(extracted), DirectiveNames[k])

\* The lines of a conda listing whose package-name column is the name.
PackageLines(text, name) ==
    {i \in 1..Len(Lines(text)) :
        LET words == SplitWhitespace(Lines(text)[i])
        IN  Len(words) >= 1 /\ words[1] = name}

\* C29: from a conda listing with no line of the package asked for, but with
\* a line of a package whose name starts with that name, the conda parser
\* yields no token.
C29_CondaExactName ==
    (pc = "parsed" /\ parsing.parser = "conda"
        /\ PackageLines(parsing.text, parsing.package) = {}
        /\ \E i \in 1..Len(Lines(parsing.text)) :
              StartsWith(Lines(parsing.text)[i], parsing.package))
        => extracted = None

\* With a line of the package itself before any other line that starts with
\* its name, the token is the version of that line.
C29_CondaOwnLineFirst ==
    (pc = "parsed" /\ parsing.parser = "conda"
        /\ Lines(parsing.text) # << >>
        /\ SplitWhitespace(Lines(parsing.text)[1]) = <<"torch", "2.1.0", "py311">>)
        => extracted = Some("2.1.0")

\* A line that tells of no version: a blank one, or a warning other than the
\* notice that the package is not there.
Diagnostic(line) ==
    \/ Trim(line) = ""
    \/ StartsWith(line, "WARNING") /\ ~Contains(line, Sentinel)

\* The lines of the text that carry the version: for pip show the Version
\* lines, for the python probe the lines that are no diagnostic.
VersionLines(parser, text) ==
    {i \in 1..Len(Lines(text)) :
        IF parser = "pip" THEN StartsWith(Lines(text)[i], "Version: ")
        ELSE ~Diagnostic(Lines(text)[i])}

\* The version a version line carries.
VersionOf(parser, line) ==
    IF parser = "pip" THEN Trim(SubSeq(line, Len("Version: ") + 1, Len(line)))
    ELSE Trim(line)

\* The text is one version line among warnings and blank lines (and, for pip
\* show, the other fields of the package).
VersionAmongDiagnostics(parser, text) ==
    /\ ~Contains(text, Sentinel)
    /\ Cardinality(VersionLines(parser, text)) = 1
    /\ \E i \in 1..Len(Lines(text)) : Diagnostic(Lines(text)[i])

\* C23: from a text that is one version line with warning lines and blank
\* lines around it, the pip parser and the python import parser extract the
\* version of that line, trimmed.
C23_DiagnosticsIgnored ==
    (pc = "parsed" /\ parsing.parser \in {"pip", "import"}
        /\ VersionAmongDiagnostics(parsing.parser, parsing.text))
        => LET at == CHOOSE i \in VersionLines(parsing.parser, parsing.text) : TRUE
           IN  extracted = Some(VersionOf(parsing.parser, Lines(parsing.text)[at]))

\* The pip parser does.
C23_PipIgnoresDiagnostics ==
    (pc = "parsed" /\ parsing.parser = "pip"
        /\ VersionAmongDiagnostics(parsing.parser, parsing.text))
        => LET at == CHOOSE i \in VersionLines(parsing.parser, parsing.text) : TRUE
           IN  extracted = Some(VersionOf(parsing.parser, Lines(parsing.text)[at]))

\* The python import parser does when the diagnostics are blank lines only,
\* and yields nothing when a warning is among them.
C23_ImportRejectsWarnings ==
    (pc = "parsed" /\ parsing.parser = "import"
        /\ VersionAmongDiagnostics(parsing.parser, parsing.text))
        => IF Contains(parsing.text, "WARNING")
           THEN extracted = None
           ELSE extracted = Some("2.15.0")

---------------------------------------------------------------------------
(* The snapshot codec: serde_json on the derived Serialize / Deserialize   *)
(* of EnvironmentConfig (lib.rs 13-50, 1406, 1425)                         *)
(* A JSON document is the tree of its values; a string value is kept in    *)
(* its escaped form, as the document holds it.                             *)

JNull == [t |-> "null"]

JString(escaped) == [t |-> "string", s |-> escaped]

JNumber(n) == [t |-> "number", n |-> n]

JArray(items) == [t |-> "array", a |-> items]

JObject(members) == [t |-> "object", o |-> members]

\* A character of a string, as the document writes it.
EscapeChar(c) ==
    CASE c = "\"" -> "\\\""
      [] c = "\\" -> "\\\\"
      [] c = "\n" -> "\\n"
      [] c = "\r" -> "\\r"
      [] c = "\t" -> "\\t"
      [] c = "\f" -> "\\f"
      [] OTHER -> c

RECURSIVE EscapeFrom(_, _)
EscapeFrom(s, i) ==
    IF i > Len(s) THEN ""
    ELSE EscapeChar(SubSeq(s, i, i)) \o EscapeFrom(s, i + 1)

Escape(s) == EscapeFrom(s, 1)

\* The character an escape stands for.
UnescapeChar(c) ==
    CASE c = "n" -> "\n"
      [] c = "r" -> "\r"
      [] c = "t" -> "\t"
      [] c = "f" -> "\f"
      [] OTHER -> c

RECURSIVE UnescapeFrom(_, _)
UnescapeFrom(s, i) ==
    IF i > Len(s) THEN ""
    ELSE IF SubSeq(s, i, i) = "\\" /\ i < Len(s)
         THEN UnescapeChar(SubSeq(s, i + 1, i + 1)) \o UnescapeFrom(s, i + 2)
         ELSE SubSeq(s, i, i) \o UnescapeFrom(s, i + 1)

Unescape(s) == UnescapeFrom(s, 1)

\* The digits of n, with zeros in front up to the width.
RECURSIVE Padded(_, _)
Padded(n, width) ==
    IF width = 0 THEN "" ELSE Padded(n \div 10, width - 1) \o Digit(n % 10)

\* The number a string of digits writes.
RECURSIVE NumberOf(_)
NumberOf(digits) ==
    IF digits = "" THEN 0
    ELSE 10 * NumberOf(SubSeq(digits, 1, Len(digits) - 1))
         + (CHOOSE d \in 0..9 : Digit(d) = SubSeq(digits, Len(digits), Len(digits)))

RECURSIVE TenTo(_)
TenTo(k) == IF k = 0 THEN 1 ELSE 10 * TenTo(k - 1)

\* DateTime<Utc> as serde writes it: the seconds, then the fraction with
\* three, six or nine digits when there is one, then Z.  (The calendar form
\* of the seconds is left as their count.)
encode_datetime(ts) ==
    DecimalString(ts.secs)
    \o (IF ts.nanos = 0 THEN ""
        ELSE IF ts.nanos % 1000000 = 0 THEN "." \o Padded(ts.nanos \div 1000000, 3)
        ELSE IF ts.nanos % 1000 = 0 THEN "." \o Padded(ts.nanos \div 1000, 6)
        ELSE "." \o Padded(ts.nanos, 9))
    \o "Z"

\* The DateTime a string writes, None when it writes none.
decode_datetime(str) ==
    LET body == SubSeq(str, 1, Len(str) - 1)
        parts == Split(body, ".")
        digits(d) == d # "" /\ DigitsEnd(d, 1) = Len(d) + 1
    IN  IF Len(str) = 0 \/ SubSeq(str, Len(str), Len(str)) # "Z" THEN None
        ELSE IF Len(parts) = 1 /\ digits(parts[1])
             THEN Some(DateTime(NumberOf(parts[1]), 0))
        ELSE IF Len(parts) = 2 /\ digits(parts[1]) /\ digits(parts[2])
                /\ Len(parts[2]) <= 9
             THEN Some(DateTime(NumberOf(parts[1]),
                                NumberOf(parts[2]) * TenTo(9 - Len(parts[2]))))
        ELSE None

\* Serialize for Option<String>: None is null, Some(s) the string.
encode_option_string(o) == IF IsSome(o) THEN JString(Escape(Unwrap(o))) ELSE JNull

\* Serialize for f64: serde_json writes a number that is not finite as null.
encode_f64(x) == IF x.class = "finite" THEN JNumber(x.number) ELSE JNull

\* Serialize for Option<f64>.
encode_option_number(o) == IF IsSome(o) THEN encode_f64(Unwrap(o)) ELSE JNull

encode_gpu(gpu) ==
    JObject([name |-> JString(Escape(gpu.name)),
             memory_gb |-> encode_option_number(gpu.memory_gb),
             compute_capability |-> encode_option_string(gpu.compute_capability)])

\* serde_json::to_string_pretty(&config)
encode(config) ==
    JObject([
        system_info |-> JObject([
            os |-> JString(Escape(config.system_info.os)),
            arch |-> JString(Escape(config.system_info.arch)),
            cpu |-> JString(Escape(config.system_info.cpu)),
            total_memory_gb |-> encode_f64(config.system_info.total_memory_gb),
            python_version |-> encode_option_string(config.system_info.python_version)]),
        cuda_info |-> JObject([
            driver_version |-> encode_option_string(config.cuda_info.driver_version),
            cuda_version |-> encode_option_string(config.cuda_info.cuda_version),
            cudnn_version |-> encode_option_string(config.cuda_info.cudnn_version),
            gpus |-> JArray([i \in 1..Len(config.cuda_info.gpus) |->
                                encode_gpu(config.cuda_info.gpus[i])])]),
        frameworks |-> JObject([
            tensorflow |-> encode_option_string(config.frameworks.tensorflow),
            pytorch |-> encode_option_string(config.frameworks.pytorch)]),
        timestamp |-> JString(encode_datetime(config.timestamp)),
        hostname |-> JString(Escape(config.hostname))])

\* str::parse::<f64>() of the memory column, for the texts the query is given
\* here: a run of digits is that number, "inf", "infinity" and "nan" in any
\* case are the values that are not finite, and a text with another
\* character than these is no number.
parse_f64(text) ==
    IF text # "" /\ DigitsEnd(text, 1) = Len(text) + 1 THEN Some(Finite(NumberOf(text)))
    ELSE IF text \in {"inf", "Inf", "INF", "infinity", "Infinity"} THEN Some(Infinite)
    ELSE IF text \in {"nan", "NaN", "NAN"} THEN Some(NotANumber)
    ELSE None

\* get_gpu_list keeping the rows whose memory column is a number only.
get_gpu_list_numbered(outcome) ==
    IF ~outcome.ok THEN << >>
    ELSE LET rows == Lines(outcome.val)
             parts(i) == LET cut == Split(rows[i], ",")
                         IN  [k \in 1..Len(cut) |-> Trim(cut[k])]
             kept == SelectSeq([i \in 1..Len(rows) |-> parts(i)],
                               LAMBDA row : Len(row) >= 2 /\ IsSome(parse_f64(row[2])))
         IN  [i \in 1..Len(kept) |->
                 GpuInfo(kept[i][1], parse_f64(kept[i][2]), None)]

\* get_gpu_list on the outcome of the nvidia-smi query (lib.rs 1482-1499).
get_gpu_list(outcome) ==
    IF ~outcome.ok THEN << >>
    ELSE LET rows == Lines(outcome.val)
             parts(i) == LET cut == Split(rows[i], ",")
                         IN  [k \in 1..Len(cut) |-> Trim(cut[k])]
             kept == SelectSeq([i \in 1..Len(rows) |-> parts(i)],
                               LAMBDA row : Len(row) >= 2)
         IN  [i \in 1..Len(kept) |->
                 GpuInfo(kept[i][1], parse_f64(kept[i][2]), None)]

\* A member of an object, by its key.
Has(obj, key) == key \in DOMAIN obj.o

\* A required field of the given JSON type is there.
Required(obj, key, type) == Has(obj, key) /\ obj.o[key].t = type

\* An Option field that has to be there.
Optional_present(obj, key, type) == Has(obj, key) /\ obj.o[key].t \in {"null", type}

\* An Option field is missing, null, or of the given JSON type.
Optional(obj, key, type) == Has(obj, key) => obj.o[key].t \in {"null", type}

OptionString(obj, key) ==
    IF Has(obj, key) /\ obj.o[key].t = "string"
    THEN Some(Unescape(obj.o[key].s)) ELSE None

OptionNumber(obj, key) ==
    IF Has(obj, key) /\ obj.o[key].t = "number"
    THEN Some(Finite(obj.o[key].n)) ELSE None

\* Deserialize for GpuInfo
valid_gpu(v) ==
    /\ v.t = "object"
    /\ Required(v, "name", "string")
    /\ Optional(v, "memory_gb", "number")
    /\ Optional(v, "compute_capability", "string")

decode_gpu(v) ==
    GpuInfo(Unescape(v.o.name.s), OptionNumber(v, "memory_gb"),
            OptionString(v, "compute_capability"))

\* Deserialize for EnvironmentConfig: what a document must hold.
valid_config(doc) ==
    /\ doc.t = "object"
    /\ Required(doc, "system_info", "object")
    /\ Required(doc.o.system_info, "os", "string")
    /\ Required(doc.o.system_info, "arch", "string")
    /\ Required(doc.o.system_info, "cpu", "string")
    /\ Required(doc.o.system_info, "total_memory_gb", "number")
    /\ Optional(doc.o.system_info, "python_version", "string")
    /\ Required(doc, "cuda_info", "object")
    /\ Optional(doc.o.cuda_info, "driver_version", "string")
    /\ Optional(doc.o.cuda_info, "cuda_version", "string")
    /\ Optional(doc.o.cuda_info, "cudnn_version", "string")
    /\ Required(doc.o.cuda_info, "gpus", "array")
    /\ \A i \in 1..Len(doc.o.cuda_info.o.gpus.a) : valid_gpu(doc.o.cuda_info.o.gpus.a[i])
    /\ Required(doc, "frameworks", "object")
    /\ Optional(doc.o.frameworks, "tensorflow", "string")
    /\ Optional(doc.o.frameworks, "pytorch", "string")
    /\ Required(doc, "timestamp", "string")
    /\ IsSome(decode_datetime(doc.o.timestamp.s))
    /\ Required(doc, "hostname", "string")

\* The EnvironmentConfig a valid document holds.
decoded_config(doc) ==
    EnvironmentConfig(
             SystemInfo(Unescape(doc.o.system_info.o.os.s),
                        Unescape(doc.o.system_info.o.arch.s),
                        Unescape(doc.o.system_info.o.cpu.s),
                        Finite(doc.o.system_info.o.total_memory_gb.n),
                        OptionString(doc.o.system_info, "python_version")),
             CudaInfo(OptionString(doc.o.cuda_info, "driver_version"),
                      OptionString(doc.o.cuda_info, "cuda_version"),
                      OptionString(doc.o.cuda_info, "cudnn_version"),
                      [i \in 1..Len(doc.o.cuda_info.o.gpus.a) |->
                          decode_gpu(doc.o.cuda_info.o.gpus.a[i])]),
             FrameworkInfo(OptionString(doc.o.frameworks, "tensorflow"),
                           OptionString(doc.o.frameworks, "pytorch")),
             Unwrap(decode_datetime(doc.o.timestamp.s)),
             Unescape(doc.o.hostname.s))

\* from_str(..).unwrap_or_default() in the place of the match: a document
\* that does not decode gives a configuration of default values.
decode_or_default(doc) ==
    Ok(IF valid_config(doc) THEN decoded_config(doc)
       ELSE EnvironmentConfig(SystemInfo("", "", "", Finite(0), None),
                              CudaInfo(None, None, None, << >>),
                              FrameworkInfo(None, None), DateTime(0, 0), ""))

\* serde_json::from_str::<EnvironmentConfig>(&content)
decode(doc) ==
    IF valid_config(doc)
    THEN Ok(decoded_config(doc))
    ELSE Err("Failed to parse config file")

---------------------------------------------------------------------------
(* Export, then import: export_environment and import_environment          *)
(* (lib.rs 1401-1434), each one run of the program.                        *)

\* The configurations collect_environment_config can return that the export
\* runs are given.  python_version and driver_version are trimmed or raw
\* standard output and can be empty; a GPU's compute_capability is None.
\* What the nvidia-smi query of get_gpu_list can come back with: no such
\* command, no device, devices with their MiB, a device whose memory column
\* is no number, and one whose memory column reads as a number that is not
\* finite.
GpuQueryOutcomes ==
    {ProbeFailed,
     Ok(""),
     Ok("NVIDIA RTX 3080, 10240\n"),
     Ok("NVIDIA \"A100\", [N/A]\n, 40960\nTesla\n"),
     Ok("Tesla T4, inf\n"),
     Ok("Tesla T4, NaN\n")}

GpuLists == {get_gpu_list(outcome) : outcome \in GpuQueryOutcomes}

Timestamps == {DateTime(7, 0), DateTime(12, 500000000), DateTime(0, 123456789)}

CodecConfigs ==
    {EnvironmentConfig(
         SystemInfo("Ubuntu 22.04", "x86_64", "cpu0", Finite(16), python),
         CudaInfo(driver, cuda, cudnn, gpus),
         FrameworkInfo(tf, torch),
         ts, "host\\1") :
       python \in {None, Some(""), Some("Python 3.11.4")},
       driver \in {None, Some(""), Some("535.104.05\n")},
       cuda \in {None, Some("12.2")},
       cudnn \in {None, Some("8.9.2")},
       tf \in {None, Some("2.15.0")},
       torch \in {None, Some("2.1.0")},
       gpus \in GpuLists,
       ts \in Timestamps}

\* The configurations the importing run collects for itself.
ImportLocalConfigs ==
    {EnvironmentConfig(
         SystemInfo("Ubuntu 22.04", "x86_64", "cpu0", Finite(16), None),
         CudaInfo(driver, Some("12.2"), None, << >>),
         FrameworkInfo(None, Some("2.1.0")),
         DateTime(20, 0), "host2") :
       driver \in {None, Some("535.104.05\n")}}

CodecInit ==
    /\ pc = "start"
    /\ file = None
    /\ exported = NoConfig
    /\ ReconcileIdle
    /\ FacadeIdle
    /\ ParserIdle
    /\ RestIdle

\* The line export_environment prints whatever std::fs::write gave.
write_report_success(written) == Line("Environment exported successfully!", << >>)

\* The line export_environment prints for what std::fs::write gave
\* (lib.rs 1408-1411).
write_report(written) ==
    IF written
    THEN Line("Environment exported successfully!", << >>)
    ELSE Line("Failed to write file: {}", <<"error">>)

\* export_environment: the configuration is collected and serialized, and the
\* document is written when the file can be written.
Export ==
    /\ pc = "start"
    /\ \E config \in CodecConfigs, writable \in BOOLEAN :
          /\ current' = config
          /\ exported' = config
          /\ file' = IF writable THEN Some(encode(config)) ELSE file
          /\ printed' = <<Line("Exporting environment to {}...", <<"FILE">>),
                          write_report(writable)>>
    /\ pc' = "exported"
    /\ UNCHANGED <<imported, facadeVars, parserVars,
                 builderVars, mainVars, probeVars>>

\* The file the import is given need not be the one an export wrote: a text
\* that is no JSON, or the exported document with a member taken out or a
\* member of another name put in.
Malformed == [t |-> "malformed"]

Without(obj, key) == JObject([k \in DOMAIN obj.o \ {key} |-> obj.o[k]])

WithUnknown(obj) == JObject(obj.o @@ [comment |-> JString("edited")])

Within(doc, section, member) ==
    JObject([doc.o EXCEPT ![section] = Without(doc.o[section], member)])

Edits(doc) ==
    {Malformed, WithUnknown(doc)}
    \cup {Without(doc, key) : key \in {"timestamp", "hostname", "frameworks"}}
    \cup {Within(doc, "system_info", key) : key \in {"python_version", "os"}}
    \cup {Within(doc, "cuda_info", key) : key \in {"driver_version", "gpus"}}

Edit ==
    /\ pc = "exported"
    /\ IsSome(file)
    /\ \E edited \in Edits(Unwrap(file)) : file' = Some(edited)
    /\ pc' = "edited"
    /\ UNCHANGED <<reconcileVars, facadeVars, parserVars, exported,
                 builderVars, mainVars, probeVars>>

\* import_environment: the local configuration is collected, the file read
\* and decoded, and the two configurations compared.
Import ==
    /\ pc \in {"start", "exported", "edited"}
    /\ \E config \in ImportLocalConfigs :
          /\ current' = config
          /\ IF file = None
             THEN /\ printed' = <<Line("Importing environment from {}...", <<"FILE">>),
                                  Line("Failed to read file: {}", <<"error">>)>>
                  /\ imported' = NoConfig
             ELSE IF decode(Unwrap(file)).ok
             THEN /\ imported' = decode(Unwrap(file)).val
                  /\ printed' = <<Line("Importing environment from {}...", <<"FILE">>)>>
                                \o compare_environments(config, decode(Unwrap(file)).val)
             ELSE /\ printed' = <<Line("Importing environment from {}...", <<"FILE">>),
                                  Line("Failed to parse config file: {}", <<"error">>)>>
                  /\ imported' = NoConfig
    /\ pc' = "imported"
    /\ UNCHANGED <<facadeVars, parserVars, codecVars,
                 builderVars, mainVars, probeVars>>

CodecNext == Export \/ Edit \/ Import

SpecCodec == CodecInit /\ [][CodecNext]_vars

---------------------------------------------------------------------------
(* Reading an export and its import *)

OptionalStrings(config) ==
    <<config.system_info.python_version, config.cuda_info.driver_version,
      config.cuda_info.cuda_version, config.cuda_info.cudnn_version,
      config.frameworks.tensorflow, config.frameworks.pytorch>>

\* The values the document holds for the six optional strings, in that order.
OptionalMembers(doc) ==
    <<doc.o.system_info.o.python_version, doc.o.cuda_info.o.driver_version,
      doc.o.cuda_info.o.cuda_version, doc.o.cuda_info.o.cudnn_version,
      doc.o.frameworks.o.tensorflow, doc.o.frameworks.o.pytorch>>

\* C4: the configuration decoded from the exported document is the exported
\* configuration, field for field; an absent optional is written as null and
\* read as None and a present one is not, so that the two never meet (the
\* empty string is written and read as the empty string).
C4_RoundTrip ==
    (pc = "imported" /\ exported # NoConfig /\ file = Some(encode(exported))) =>
        /\ imported = exported
        /\ \A k \in 1..6 :
              /\ OptionalStrings(exported)[k] = None
                    <=> OptionalMembers(Unwrap(file))[k] = JNull
              /\ OptionalStrings(exported)[k] = None
                    <=> OptionalStrings(imported)[k] = None
        /\ \A i \in 1..Len(exported.cuda_info.gpus) :
              /\ exported.cuda_info.gpus[i].memory_gb = None
                    <=> Unwrap(file).o.cuda_info.o.gpus.a[i].o.memory_gb = JNull
              /\ exported.cuda_info.gpus[i].memory_gb = None
                    <=> imported.cuda_info.gpus[i].memory_gb = None

\* The part of C4 that the code keeps: every string of the configuration,
\* optional or not, the timestamp, and every finite number come back as they
\* were exported, None as None and the empty string as the empty string.
WithoutMemory(config) ==
    [config EXCEPT !.cuda_info.gpus =
        [i \in 1..Len(config.cuda_info.gpus) |->
            [config.cuda_info.gpus[i] EXCEPT !.memory_gb = None]]]

C4_StringsRoundTrip ==
    (pc = "imported" /\ exported # NoConfig /\ file = Some(encode(exported))) =>
        /\ WithoutMemory(imported) = WithoutMemory(exported)
        /\ \A k \in 1..6 :
              /\ OptionalStrings(exported)[k] = None
                    <=> OptionalMembers(Unwrap(file))[k] = JNull
              /\ OptionalStrings(exported)[k] = None
                    <=> OptionalStrings(imported)[k] = None
        /\ \A i \in 1..Len(exported.cuda_info.gpus) :
              LET memory == exported.cuda_info.gpus[i].memory_gb
              IN  (memory = None \/ Unwrap(memory).class = "finite")
                      => imported.cuda_info.gpus[i].memory_gb = memory

\* Every optional absent but the driver version, which is the empty string.
C4_StringsWitness ==
    /\ pc = "imported"
    /\ exported # NoConfig
    /\ file = Some(encode(exported))
    /\ OptionalStrings(imported) = <<None, Some(""), None, None, None, None>>
    /\ imported.cuda_info.gpus = << >>
    /\ exported.timestamp = DateTime(0, 123456789)

\* The lines of the output that are entries of the comparison.
Entries(out) == {i \in 1..Len(out) : Classification(out[i]) # ""}

\* The lines of the output that belong to compare_environments.
ComparisonLines(out) ==
    {i \in 1..Len(out) :
        out[i].fmt \notin {"Importing environment from {}...",
                           "Failed to read file: {}",
                           "Failed to parse config file: {}"}}

\* The file cannot be read, or holds no document of an EnvironmentConfig.
Undecodable == file = None \/ ~valid_config(Unwrap(file))

\* C13: an import whose file cannot be read or does not decode prints its
\* failure and nothing of a comparison, and binds no imported configuration;
\* the comparison is printed, with its five entries, only when the file was
\* read and decoded.
C13_NoComparisonAfterFailure ==
    pc = "imported" =>
        /\ Undecodable =>
              /\ imported = NoConfig
              /\ ComparisonLines(printed) = {}
              /\ Len(printed) = 2
              /\ printed[2].fmt = (IF file = None THEN "Failed to read file: {}"
                                   ELSE "Failed to parse config file: {}")
        /\ ~Undecodable =>
              /\ imported = decoded_config(Unwrap(file))
              /\ Cardinality(Entries(printed)) = 5
              /\ \A i \in 1..Len(printed) :
                    printed[i].fmt \notin {"Failed to read file: {}",
                                           "Failed to parse config file: {}"}

\* An import of an exported file from which the timestamp was taken out.
C13_Witness ==
    /\ pc = "imported"
    /\ IsSome(file)
    /\ Unwrap(file) # Malformed
    /\ ~Has(Unwrap(file), "timestamp")
    /\ imported = NoConfig
    /\ Entries(printed) = {}

\* An import of a file that cannot be read.
C13_WitnessUnreadable ==
    /\ pc = "imported"
    /\ file = None
    /\ printed[Len(printed)].fmt = "Failed to read file: {}"

\* The lines of the output that tell how the write went.
WriteReports(out) ==
    {i \in 1..Len(out) :
        out[i].fmt \in {"Environment exported successfully!", "Failed to write file: {}",
                        "Failed to serialize config: {}"}}

\* C20: after an export, success is reported exactly when the file holds the
\* serialized configuration; when the file could not be written, the write
\* error is the last line printed, no success is reported, the file is as it
\* was, and the write was reported once: it was not tried again.
C20_SuccessIffWritten ==
    pc = "exported" =>
        LET reported == \E i \in 1..Len(printed) :
                            printed[i].fmt = "Environment exported successfully!"
        IN  /\ reported <=> file = Some(encode(exported))
            /\ Cardinality(WriteReports(printed)) = 1
            /\ file = None =>
                  /\ ~reported
                  /\ printed[Len(printed)] = Line("Failed to write file: {}", <<"error">>)
                  /\ Len(printed) = 2

\* The file could not be written.
C20_Witness ==
    /\ pc = "exported"
    /\ exported # NoConfig
    /\ file = None
    /\ printed = <<Line("Exporting environment to {}...", <<"FILE">>),
                   Line("Failed to write file: {}", <<"error">>)>>

\* The file was written.
C20_WitnessWritten ==
    /\ pc = "exported"
    /\ file = Some(encode(exported))
    /\ printed[Len(printed)] = Line("Environment exported successfully!", << >>)

---------------------------------------------------------------------------
(* Decoding alone: import_environment on a file that was written by hand   *)
(* or by another version, with members missing or added.                   *)

\* The Option fields of the schema (lib.rs 28, 33-35, 42-43, 48-49).
OptionalFields ==
    {"python_version", "driver_version", "cuda_version", "cudnn_version",
     "tensorflow", "pytorch", "memory_gb", "compute_capability"}

\* The object without the members of the given names.
WithoutAll(obj, names) == JObject([k \in DOMAIN obj.o \ names |-> obj.o[k]])

\* The document without the optional members of the given names, wherever
\* they are (in a GPU record: in every GPU record).
Drop(doc, names) ==
    JObject([doc.o EXCEPT
        !.system_info = WithoutAll(@, names),
        !.frameworks = WithoutAll(@, names),
        !.cuda_info =
            JObject([WithoutAll(@, names).o EXCEPT
                !.gpus = JArray([i \in 1..Len(@.a) |-> WithoutAll(@.a[i], names)])])])

\* The places of a document where a member can be.
Places == {"top", "system_info", "cuda_info", "gpu", "frameworks"}

\* The document with a member of no field's name put in at the place.
WithUnknownIn(doc, place) ==
    CASE place = "top" -> WithUnknown(doc)
      [] place = "gpu" ->
            JObject([doc.o EXCEPT !.cuda_info =
                JObject([@.o EXCEPT !.gpus =
                    JArray([i \in 1..Len(@.a) |-> WithUnknown(@.a[i])])])])
      [] OTHER -> JObject([doc.o EXCEPT ![place] = WithUnknown(@)])

\* The configurations the documents are made from.
DecodeConfigs ==
    {EnvironmentConfig(
         SystemInfo("Ubuntu 22.04", "x86_64", "cpu0", Finite(16), Some("Python 3.11.4")),
         CudaInfo(Some("535.104.05\n"), Some("12.2"), Some("8.9.2"),
                  <<GpuInfo("NVIDIA RTX 3080", Some(Finite(10240)), Some("8.6"))>>),
         FrameworkInfo(Some("2.15.0"), Some("2.1.0")),
         DateTime(7, 0), "host1"),
     EnvironmentConfig(
         SystemInfo("Windows 11", "x86_64", "cpu0", Finite(32), Some("")),
         CudaInfo(None, Some("12.2"), None,
                  <<GpuInfo("Tesla T4", None, Some("7.5")),
                    GpuInfo("Tesla T4", Some(Finite(15360)), None)>>),
         FrameworkInfo(None, Some("2.1.0")),
         DateTime(12, 500000000), "")}

\* The documents the import is given: an exported one without some of its
\* optional members, without a member that is no Option, or with a member
\* of another name.
DecodeDocuments(config) ==
    {Drop(encode(config), names) : names \in SUBSET OptionalFields}
    \cup {Without(encode(config), key) :
             key \in {"timestamp", "hostname", "system_info", "cuda_info", "frameworks"}}
    \cup {Within(encode(config), "system_info", key) :
             key \in {"os", "arch", "cpu", "total_memory_gb"}}
    \cup {Within(encode(config), "cuda_info", "gpus")}
    \cup {WithUnknownIn(encode(config), place) : place \in Places}
    \cup {WithUnknownIn(Drop(encode(config), {"pytorch", "memory_gb"}), place) :
             place \in Places}

DecodeInit ==
    /\ pc = "edited"
    /\ exported \in DecodeConfigs
    /\ file \in {Some(doc) : doc \in DecodeDocuments(exported)}
    /\ ReconcileIdle
    /\ FacadeIdle
    /\ ParserIdle
    /\ RestIdle

DecodeNext == Import

SpecDecode == DecodeInit /\ [][DecodeNext]_vars

---------------------------------------------------------------------------
(* Reading a decode *)

\* The optional fields that are in no place of the document.
Missing(doc) ==
    {name \in OptionalFields :
        /\ ~Has(doc.o.system_info, name)
        /\ ~Has(doc.o.cuda_info, name)
        /\ ~Has(doc.o.frameworks, name)
        /\ \A i \in 1..Len(doc.o.cuda_info.o.gpus.a) :
              ~Has(doc.o.cuda_info.o.gpus.a[i], name)}

\* The sections and the members that are no Option are all there.
Structured(doc) ==
    /\ \A key \in {"system_info", "cuda_info", "frameworks", "timestamp", "hostname"} :
          Has(doc, key)
    /\ \A key \in {"os", "arch", "cpu", "total_memory_gb"} : Has(doc.o.system_info, key)
    /\ Has(doc.o.cuda_info, "gpus")

Keep(value, name, names) == IF name \in names THEN None ELSE value

\* The configuration with the optional fields of the given names absent.
Forget(config, names) ==
    EnvironmentConfig(
        SystemInfo(config.system_info.os, config.system_info.arch,
                   config.system_info.cpu, config.system_info.total_memory_gb,
                   Keep(config.system_info.python_version, "python_version", names)),
        CudaInfo(Keep(config.cuda_info.driver_version, "driver_version", names),
                 Keep(config.cuda_info.cuda_version, "cuda_version", names),
                 Keep(config.cuda_info.cudnn_version, "cudnn_version", names),
                 [i \in 1..Len(config.cuda_info.gpus) |->
                     GpuInfo(config.cuda_info.gpus[i].name,
                             Keep(config.cuda_info.gpus[i].memory_gb, "memory_gb", names),
                             Keep(config.cuda_info.gpus[i].compute_capability,
                                  "compute_capability", names))]),
        FrameworkInfo(Keep(config.frameworks.tensorflow, "tensorflow", names),
                      Keep(config.frameworks.pytorch, "pytorch", names)),
        config.timestamp, config.hostname)

\* C14: a document without its timestamp or without its hostname does not
\* decode: the import prints the failure and binds no configuration, with no
\* value put in the member's place.  An exported document from which any
\* set of optional members was taken out decodes, to the exported
\* configuration with those fields None.
C14_OptionalMayBeAbsent ==
    pc = "imported" =>
        LET doc == Unwrap(file)
        IN  /\ (~Has(doc, "timestamp") \/ ~Has(doc, "hostname")) =>
                  /\ imported = NoConfig
                  /\ printed[Len(printed)].fmt = "Failed to parse config file: {}"
            /\ (Structured(doc) /\ doc = Drop(encode(exported), Missing(doc))) =>
                  imported = Forget(exported, Missing(doc))

\* All eight optional members taken out of a document that had them all.
C14_Witness ==
    /\ pc = "imported"
    /\ Structured(Unwrap(file))
    /\ Missing(Unwrap(file)) = OptionalFields
    /\ exported.frameworks = FrameworkInfo(Some("2.15.0"), Some("2.1.0"))
    /\ imported.frameworks = FrameworkInfo(None, None)
    /\ imported.cuda_info.gpus = <<GpuInfo("NVIDIA RTX 3080", None, None)>>

\* The hostname taken out.
C14_WitnessRequired ==
    /\ pc = "imported"
    /\ ~Has(Unwrap(file), "hostname")
    /\ imported = NoConfig

\* A member whose name is no field of the struct it stands in.
HasUnknown(doc) ==
    /\ Structured(doc)
    /\ \/ "comment" \in DOMAIN doc.o
       \/ "comment" \in DOMAIN doc.o.system_info.o
       \/ "comment" \in DOMAIN doc.o.cuda_info.o
       \/ "comment" \in DOMAIN doc.o.frameworks.o
       \/ \E i \in 1..Len(doc.o.cuda_info.o.gpus.a) :
             "comment" \in DOMAIN doc.o.cuda_info.o.gpus.a[i].o

\* C15: a document with a member that is no field of the schema, at the top
\* or in system_info, cuda_info, a GPU record or frameworks, does not decode.
C15_UnknownFieldRejected ==
    (pc = "imported" /\ HasUnknown(Unwrap(file))) =>
        /\ imported = NoConfig
        /\ printed[Len(printed)].fmt = "Failed to parse config file: {}"

\* What the code does with it: the member is passed over, and the document
\* decodes to what it decodes to without the member.
C15_UnknownFieldIgnored ==
    (pc = "imported" /\ HasUnknown(Unwrap(file))) =>
        /\ imported # NoConfig
        /\ imported = Forget(exported, Missing(Unwrap(file)))

---------------------------------------------------------------------------
(* collect_environment_config (lib.rs 1436-1470), call by call, inside the *)
(* export or the import that calls it.                                     *)

\* get_python_version on the outcome of "python --version" and, when that
\* failed, of "python3 --version" (lib.rs 1472-1480).
get_python_version(python, python3) ==
    IF python.ok THEN Some(Trim(python.val))
    ELSE IF python3.ok THEN Some(Trim(python3.val))
    ELSE None

\* The detection functions collect_environment_config calls, in its order.
DetectionFunctions ==
    <<"get_nvidia_driver_version", "get_cuda_toolkit_version", "get_cudnn_version",
      "get_gpu_list", "get_tensorflow_version", "get_pytorch_version">>

\* What a detection function can return to its caller.
Returns(name) ==
    CASE name = "get_nvidia_driver_version" -> {ProbeFailed, Ok("535.104.05\n")}
      [] name = "get_cuda_toolkit_version" -> {not_found("toolkit"), Ok("12.2")}
      [] name = "get_cudnn_version" -> {not_found("cudnn"), Ok("8.9.2")}
      [] name = "get_tensorflow_version" -> {not_found("tensorflow"), Ok("2.15.0")}
      [] name = "get_pytorch_version" -> {not_found("pytorch"), Ok("2.1.0")}
      [] name = "get_gpu_list" ->
            {get_gpu_list(outcome) :
                outcome \in {ProbeFailed, Ok("NVIDIA RTX 3080, 10240\n"),
                             Ok("Tesla T4, [N/A]\nTesla\n")}}

PythonOutcomes == {ProbeFailed, Ok("Python 3.11.4\n")}

\* System::host_name()
HostNames == {None, Some("host1")}

\* A call with a second one when the first gave nothing.
invoke_with_retry(log, name, value) ==
    IF value = None \/ value = << >> \/ (DOMAIN value = {"ok", "val"} /\ ~value.ok)
    THEN log \o <<[function |-> name, returned |-> value],
                  [function |-> name, returned |-> value]>>
    ELSE Append(log, [function |-> name, returned |-> value])

\* One call of a function, with what it returned.
invoke(log, name, value) == Append(log, [function |-> name, returned |-> value])

\* What the function returned when it was called (last).
Returned(name) ==
    calls[CHOOSE i \in 1..Len(calls) :
              /\ calls[i].function = name
              /\ \A j \in (i + 1)..Len(calls) : calls[j].function # name].returned

BuilderInit ==
    /\ pc = "start"
    /\ operation = ""
    /\ calls = << >>
    /\ built = << >>
    /\ file \in {None, Some(Malformed)}
                \cup {Some(encode(config)) : config \in ImportLocalConfigs}
    /\ exported = NoConfig
    /\ ReconcileIdle
    /\ FacadeIdle
    /\ ParserIdle
    /\ MainIdle
    /\ ProbeIdle

\* export_environment up to its call of collect_environment_config.
BeginExport ==
    /\ pc = "start"
    /\ operation' = "export"
    /\ printed' = <<Line("Exporting environment to {}...", <<"FILE">>)>>
    /\ pc' = "system_info"
    /\ UNCHANGED <<current, imported, calls, built, facadeVars, parserVars,
                   codecVars, mainVars, probeVars>>

\* import_environment up to its call of collect_environment_config.
BeginImport ==
    /\ pc = "start"
    /\ operation' = "import"
    /\ printed' = <<Line("Importing environment from {}...", <<"FILE">>)>>
    /\ pc' = "system_info"
    /\ UNCHANGED <<current, imported, calls, built, facadeVars, parserVars,
                   codecVars, mainVars, probeVars>>

\* One call made by collect_environment_config, and where it goes on.
Call(name, value, next) ==
    /\ calls' = invoke(calls, name, value)
    /\ pc' = next
    /\ UNCHANGED <<operation, built, reconcileVars, facadeVars, parserVars,
                   codecVars, mainVars, probeVars>>

\* system_info: the facts of sysinfo and get_python_version().
CollectSystemInfo ==
    /\ pc = "system_info"
    /\ \E python \in PythonOutcomes, python3 \in PythonOutcomes :
          Call("get_python_version", get_python_version(python, python3),
               "driver_version")

DetectDriver ==
    /\ pc = "driver_version"
    /\ \E value \in Returns("get_nvidia_driver_version") :
          Call("get_nvidia_driver_version", value, "cuda_version")

DetectToolkit ==
    /\ pc = "cuda_version"
    /\ \E value \in Returns("get_cuda_toolkit_version") :
          Call("get_cuda_toolkit_version", value, "cudnn_version")

DetectCudnn ==
    /\ pc = "cudnn_version"
    /\ \E value \in Returns("get_cudnn_version") :
          Call("get_cudnn_version", value, "gpus")

ListGpus ==
    /\ pc = "gpus"
    /\ \E value \in Returns("get_gpu_list") :
          Call("get_gpu_list", value, "tensorflow")

DetectTensorflow ==
    /\ pc = "tensorflow"
    /\ \E value \in Returns("get_tensorflow_version") :
          Call("get_tensorflow_version", value, "pytorch")

DetectPytorch ==
    /\ pc = "pytorch"
    /\ \E value \in Returns("get_pytorch_version") :
          Call("get_pytorch_version", value, "timestamp")

\* The EnvironmentConfig is put together and returned.
Stamp ==
    /\ pc = "timestamp"
    /\ \E host \in HostNames :
          built' = Append(built,
              EnvironmentConfig(
                  SystemInfo("Ubuntu 22.04", "x86_64", "cpu0", Finite(16),
                             Returned("get_python_version")),
                  CudaInfo(ResultOk(Returned("get_nvidia_driver_version")),
                           ResultOk(Returned("get_cuda_toolkit_version")),
                           ResultOk(Returned("get_cudnn_version")),
                           Returned("get_gpu_list")),
                  FrameworkInfo(ResultOk(Returned("get_tensorflow_version")),
                                ResultOk(Returned("get_pytorch_version"))),
                  DateTime(20, 0),
                  IF IsSome(host) THEN Unwrap(host) ELSE ""))
    /\ pc' = "collected"
    /\ UNCHANGED <<operation, calls, reconcileVars, facadeVars, parserVars,
                   codecVars, mainVars, probeVars>>

\* export_environment from the configuration it was given on.
FinishExport ==
    /\ pc = "collected"
    /\ operation = "export"
    /\ current' = built[Len(built)]
    /\ exported' = built[Len(built)]
    /\ \E writable \in BOOLEAN :
          /\ file' = IF writable THEN Some(encode(built[Len(built)])) ELSE file
          /\ printed' = Append(printed, write_report(writable))
    /\ pc' = "done"
    /\ UNCHANGED <<imported, builderVars, facadeVars, parserVars, mainVars, probeVars>>

\* import_environment from the configuration it was given on.
FinishImport ==
    /\ pc = "collected"
    /\ operation = "import"
    /\ current' = built[Len(built)]
    /\ IF file = None
       THEN /\ printed' = Append(printed, Line("Failed to read file: {}", <<"error">>))
            /\ imported' = NoConfig
       ELSE IF decode(Unwrap(file)).ok
       THEN /\ imported' = decode(Unwrap(file)).val
            /\ printed' = printed \o compare_environments(built[Len(built)],
                                                          decode(Unwrap(file)).val)
       ELSE /\ printed' = Append(printed,
                              Line("Failed to parse config file: {}", <<"error">>))
            /\ imported' = NoConfig
    /\ pc' = "done"
    /\ UNCHANGED <<codecVars, builderVars, facadeVars, parserVars, mainVars, probeVars>>

BuilderNext ==
    \/ BeginExport
    \/ BeginImport
    \/ CollectSystemInfo
    \/ DetectDriver
    \/ DetectToolkit
    \/ DetectCudnn
    \/ ListGpus
    \/ DetectTensorflow
    \/ DetectPytorch
    \/ Stamp
    \/ FinishExport
    \/ FinishImport

SpecBuilder == BuilderInit /\ [][BuilderNext]_vars

---------------------------------------------------------------------------
(* Reading a run of collect_environment_config *)

\* An Option<String> taken from what a detection function returned.
AbsentIfUndetected(value, name) ==
    IF Returned(name).ok THEN value = Some(Returned(name).val) ELSE value = None

BuilderSteps ==
    {"system_info", "driver_version", "cuda_version", "cudnn_version", "gpus",
     "tensorflow", "pytorch", "timestamp"}

\* C11: collect_environment_config cannot fail.  Whatever each detection
\* function returned, every call before the return has been made with a
\* result of its function, and the configuration returned is complete: a
\* capability that was not detected is None and a detected one its token, the
\* python version and the GPU list are what their functions returned, and
\* timestamp and hostname are there.
C11_BuilderCannotFail ==
    /\ pc \in BuilderSteps => built = << >>
    /\ pc \in {"collected", "done"} =>
          /\ Len(built) = 1
          /\ LET config == built[1]
             IN  /\ DOMAIN config = {"system_info", "cuda_info", "frameworks",
                                     "timestamp", "hostname"}
                 /\ AbsentIfUndetected(config.cuda_info.driver_version,
                                       "get_nvidia_driver_version")
                 /\ AbsentIfUndetected(config.cuda_info.cuda_version,
                                       "get_cuda_toolkit_version")
                 /\ AbsentIfUndetected(config.cuda_info.cudnn_version,
                                       "get_cudnn_version")
                 /\ AbsentIfUndetected(config.frameworks.tensorflow,
                                       "get_tensorflow_version")
                 /\ AbsentIfUndetected(config.frameworks.pytorch,
                                       "get_pytorch_version")
                 /\ config.system_info.python_version = Returned("get_python_version")
                 /\ config.cuda_info.gpus = Returned("get_gpu_list")
                 /\ config.timestamp = DateTime(20, 0)
                 /\ config.hostname \in {"", "host1"}

\* Nothing was detected, and the configuration is returned all the same.
C11_Witness ==
    /\ pc = "collected"
    /\ \A i \in 1..Len(calls) :
          calls[i].returned \in {None, ProbeFailed, not_found("toolkit"),
                                 not_found("cudnn"), not_found("tensorflow"),
                                 not_found("pytorch")}
    /\ Len(built) = 1
    /\ built[1].cuda_info
          = CudaInfo(None, None, None, << >>)
    /\ built[1].frameworks = FrameworkInfo(None, None)
    /\ built[1].system_info.python_version = None

\* How many times the function has been called.
Invocations(name) ==
    Cardinality({i \in 1..Len(calls) : calls[i].function = name})

\* C12: one collect_environment_config calls each of the six detection
\* functions once: never twice at any point, and once each when it returns,
\* whatever the others returned; an export or an import has collected one
\* configuration when it is done, and never a second.
C12_EachFacadeOnce ==
    /\ \A k \in 1..Len(DetectionFunctions) :
          /\ Invocations(DetectionFunctions[k]) <= 1
          /\ pc \in {"collected", "done"} => Invocations(DetectionFunctions[k]) = 1
    /\ Len(built) <= 1
    /\ pc = "done" => Len(built) = 1

\* An import whose file cannot be read, after a collection in which the
\* driver and PyTorch were found and the rest was not.
C12_Witness ==
    /\ pc = "done"
    /\ operation = "import"
    /\ file = None
    /\ Len(calls) = 7
    /\ Returned("get_nvidia_driver_version").ok
    /\ ~Returned("get_cuda_toolkit_version").ok
    /\ ~Returned("get_cudnn_version").ok
    /\ ~Returned("get_tensorflow_version").ok
    /\ Returned("get_pytorch_version").ok

---------------------------------------------------------------------------
(* get_gpu_list from the query to the list, and the list exported and      *)
(* imported.                                                               *)

\* The rows nvidia-smi --query-gpu=name,memory.total may print: devices with
\* their MiB, a device whose memory is not told, a row of one column, a row
\* of three, an empty line.
GpuRows ==
    <<"NVIDIA RTX 3080, 10240", "Tesla T4, [N/A]", "Tesla", "A100 , 40960, 8.0", "">>

GpuOutcomes == {ProbeFailed} \cup {Ok(text) : text \in Texts(GpuRows, MaxLines)}

GpuListInit ==
    /\ pc = "query"
    /\ operation = "export"
    /\ calls = << >>
    /\ built = << >>
    /\ CodecIdle
    /\ ReconcileIdle
    /\ FacadeIdle
    /\ ParserIdle
    /\ MainIdle
    /\ ProbeIdle

\* get_gpu_list: the query is run and the list made of what it printed.
QueryGpus ==
    /\ pc = "query"
    /\ \E outcome \in GpuOutcomes :
          calls' = invoke(invoke(calls, "run_command", outcome),
                          "get_gpu_list", get_gpu_list(outcome))
    /\ pc' = "listed"
    /\ UNCHANGED <<operation, built, reconcileVars, facadeVars, parserVars, codecVars,
                   mainVars, probeVars>>

\* export_environment of the configuration that holds the list.
ExportListed ==
    /\ pc = "listed"
    /\ LET config ==
              EnvironmentConfig(
                  SystemInfo("Ubuntu 22.04", "x86_64", "cpu0", Finite(16), None),
                  CudaInfo(None, None, None, Returned("get_gpu_list")),
                  FrameworkInfo(None, None),
                  DateTime(20, 0), "host1")
       IN  /\ built' = Append(built, config)
           /\ current' = config
           /\ exported' = config
           /\ \E writable \in BOOLEAN :
                 /\ file' = IF writable THEN Some(encode(config)) ELSE file
                 /\ printed' = <<Line("Exporting environment to {}...", <<"FILE">>),
                                 write_report(writable)>>
    /\ pc' = "exported"
    /\ UNCHANGED <<imported, operation, calls, facadeVars, parserVars, mainVars, probeVars>>

GpuListNext == QueryGpus \/ ExportListed \/ Import

SpecGpuList == GpuListInit /\ [][GpuListNext]_vars

---------------------------------------------------------------------------
(* Reading a GPU list *)

\* The rows of the text that have two columns at least, in their order.
WellFormedRows(text) ==
    SelectSeq(Lines(text), LAMBDA row : Contains(row, ","))

\* The column of the row, trimmed.
Column(row, k) == Trim(Split(row, ",")[k])

\* C27: get_gpu_list returns a list whatever the query did: the empty list
\* when the query failed or printed no row of two columns, and otherwise one
\* record for each row of two columns or more, in the order of the rows, with
\* the name of the row, and with no memory when the memory column is no
\* number; the configuration with the empty list is written as a document
\* with an empty array, and that document decodes to the empty list.
C27_GpuListNeverFails ==
    pc \in {"listed", "exported", "imported"} =>
        LET outcome == Returned("run_command")
            list == Returned("get_gpu_list")
            rows == IF outcome.ok THEN WellFormedRows(outcome.val) ELSE << >>
        IN  /\ DOMAIN list = 1..Len(list)
            /\ Len(list) = Len(rows)
            /\ \A k \in 1..Len(rows) :
                  /\ list[k].name = Column(rows[k], 1)
                  /\ list[k].compute_capability = None
                  /\ Numeric(Column(rows[k], 2))
                        => list[k].memory_gb = Some(Finite(NumberOf(Column(rows[k], 2))))
                  /\ Column(rows[k], 2) = "[N/A]" => list[k].memory_gb = None
            /\ (list = << >> /\ IsSome(file)) =>
                  /\ valid_config(Unwrap(file))
                  /\ Unwrap(file).o.cuda_info.o.gpus = JArray(<< >>)
                  /\ pc = "imported" =>
                        /\ imported = exported
                        /\ imported.cuda_info.gpus = << >>

\* A row of one column, a row with no memory told and a row of three columns:
\* two records.
C27_Witness ==
    /\ pc = "listed"
    /\ Returned("run_command") = Ok("Tesla\nTesla T4, [N/A]\nA100 , 40960, 8.0\n")
    /\ Returned("get_gpu_list")
          = <<GpuInfo("Tesla T4", None, None), GpuInfo("A100", Some(Finite(40960)), None)>>

\* The query failed; the empty list was exported and imported.
C27_WitnessEmpty ==
    /\ pc = "imported"
    /\ Returned("run_command") = ProbeFailed
    /\ Returned("get_gpu_list") = << >>
    /\ IsSome(file)
    /\ imported.cuda_info.gpus = << >>

---------------------------------------------------------------------------
(* run_command (lib.rs 52-83) on its own.  What the process wrote is a     *)
(* sequence of bytes; the String made of it is a sequence of code points.  *)

\* The longest standard output of a process that is followed byte by byte.
MaxBytes == 3

ReplacementCharacter == 65533

Continuation(b) == b >= 128 /\ b <= 191

\* The bytes a UTF-8 sequence that starts with b is made of; 0 when none
\* starts with b.
Utf8Width(b) ==
    IF b < 128 THEN 1
    ELSE IF b >= 194 /\ b <= 223 THEN 2
    ELSE IF b >= 224 /\ b <= 239 THEN 3
    ELSE IF b >= 240 /\ b <= 244 THEN 4
    ELSE 0

\* The second byte a sequence that starts with b may have.
SecondByte(b, c) ==
    CASE b = 224 -> c >= 160 /\ c <= 191
      [] b = 237 -> c >= 128 /\ c <= 159
      [] b = 240 -> c >= 144 /\ c <= 191
      [] b = 244 -> c >= 128 /\ c <= 143
      [] OTHER -> Continuation(c)

\* The bytes at the head of the sequence that are the start of one
\* well-formed UTF-8 sequence, as far as they go.
WellFormedPrefix(bytes) ==
    LET width == Utf8Width(bytes[1])
    IN  IF width = 0 THEN 0
        ELSE IF width = 1 THEN 1
        ELSE IF Len(bytes) < 2 \/ ~SecondByte(bytes[1], bytes[2]) THEN 1
        ELSE IF width = 2 THEN 2
        ELSE IF Len(bytes) < 3 \/ ~Continuation(bytes[3]) THEN 2
        ELSE IF width = 3 THEN 3
        ELSE IF Len(bytes) < 4 \/ ~Continuation(bytes[4]) THEN 3
        ELSE 4

\* The code point the well-formed sequence at the head of the bytes writes.
CodePoint(bytes) ==
    CASE Utf8Width(bytes[1]) = 1 -> bytes[1]
      [] Utf8Width(bytes[1]) = 2 -> ((bytes[1] - 192) * 64) + (bytes[2] - 128)
      [] Utf8Width(bytes[1]) = 3 ->
            ((bytes[1] - 224) * 4096) + ((bytes[2] - 128) * 64) + (bytes[3] - 128)
      [] OTHER ->
            ((bytes[1] - 240) * 262144) + ((bytes[2] - 128) * 4096)
            + ((bytes[3] - 128) * 64) + (bytes[4] - 128)

\* String::from_utf8_lossy: each well-formed sequence gives its code point,
\* each longest ill-formed run of bytes gives one U+FFFD.
RECURSIVE from_utf8_lossy(_)
from_utf8_lossy(bytes) ==
    IF bytes = << >> THEN << >>
    ELSE LET width == Utf8Width(bytes[1])
             good == WellFormedPrefix(bytes)
         IN  IF width > 0 /\ good = width
             THEN <<CodePoint(bytes)>> \o from_utf8_lossy(SubSeq(bytes, width + 1, Len(bytes)))
             ELSE <<ReplacementCharacter>>
                  \o from_utf8_lossy(SubSeq(bytes, (IF good = 0 THEN 1 ELSE good) + 1,
                                            Len(bytes)))

\* The UTF-8 bytes of one code point.
encode_utf8(c) ==
    IF c < 128 THEN <<c>>
    ELSE IF c < 2048 THEN <<192 + (c \div 64), 128 + (c % 64)>>
    ELSE IF c < 65536
         THEN <<224 + (c \div 4096), 128 + ((c \div 64) % 64), 128 + (c % 64)>>
    ELSE <<240 + (c \div 262144), 128 + ((c \div 4096) % 64),
           128 + ((c \div 64) % 64), 128 + (c % 64)>>

\* String::as_bytes
RECURSIVE as_bytes(_)
as_bytes(text) ==
    IF text = << >> THEN << >> ELSE encode_utf8(text[1]) \o as_bytes(Tail(text))

\* ExitStatus: ended by itself with a code, or ended by a signal.
Exited(code) == [exited |-> TRUE, code |-> code]

Signaled(signal) == [exited |-> FALSE, code |-> signal]

\* ExitStatus::success, and the same for any status of a process that ended
\* by itself.
success_if_exited(exit) == exit.exited

success(exit) == exit.exited /\ exit.code = 0

\* ExitStatus::code().unwrap_or(-1)
code_or(exit) == IF exit.exited THEN exit.code ELSE -1

\* std::process::Output
Output(exit, stdout, stderr) == [status |-> exit, stdout |-> stdout, stderr |-> stderr]

\* The Err of run_command: the format and what is put in it.
Failure(fmt, code, text) == [fmt |-> fmt, code |-> code, text |-> text]

\* The value of run_command for what Command::output gave.
run_command(output) ==
    IF output.ok
    THEN LET stdout == from_utf8_lossy(output.val.stdout)
             stderr == from_utf8_lossy(output.val.stderr)
         IN  IF success(output.val.status)
             THEN Ok(stdout)
             ELSE Err(Failure("Command failed with exit code {}: {}",
                              code_or(output.val.status), stderr))
    ELSE Err(Failure("{} (os error {})", output.val, << >>))

\* The lines run_command prints when it is verbose.
run_command_lines(verbose, output) ==
    IF ~verbose THEN << >>
    ELSE <<Line("Running command: {}", <<"COMMAND">>)>>
         \o (IF output.ok
             THEN <<Line("Command stdout: {}", <<from_utf8_lossy(output.val.stdout)>>),
                    Line("Command stderr: {}", <<from_utf8_lossy(output.val.stderr)>>)>>
             ELSE << >>)

\* '5', line feed, the two bytes of U+00E9, the first two of U+20A9 (whose
\* third is the second of U+00E9), and a byte no UTF-8 text has.
BytePool == {53, 10, 195, 169, 226, 130, 255}

RECURSIVE ByteStrings(_)
ByteStrings(n) ==
    IF n = 0 THEN {<< >>}
    ELSE LET shorter == ByteStrings(n - 1)
         IN  shorter \cup {Append(b, c) : b \in shorter, c \in BytePool}

ExitStatuses == {Exited(0), Exited(1), Exited(127), Signaled(9)}

StderrPool == {<< >>, <<101, 10>>, <<255>>}

\* The os errors of a spawn that failed: ENOENT, EACCES.
SpawnErrors == {2, 13}

\* What Command::output gives.
Outputs ==
    {Ok(Output(exit, stdout, stderr)) :
        exit \in ExitStatuses, stdout \in ByteStrings(MaxBytes), stderr \in StderrPool}
    \cup {Err(errno) : errno \in SpawnErrors}

ProbeInit ==
    /\ pc = "spawn"
    /\ spawned \in {[verbose |-> verbose, output |-> output] :
                       verbose \in BOOLEAN, output \in Outputs}
    /\ returned = None
    /\ ReconcileIdle
    /\ FacadeIdle
    /\ ParserIdle
    /\ CodecIdle
    /\ BuilderIdle
    /\ MainIdle

\* run_command, from the call to the return.
Execute ==
    /\ pc = "spawn"
    /\ returned' = Some(run_command(spawned.output))
    /\ printed' = run_command_lines(spawned.verbose, spawned.output)
    /\ pc' = "ran"
    /\ UNCHANGED <<current, imported, spawned, facadeVars, parserVars, codecVars,
                   builderVars, mainVars>>

ProbeNext == Execute

SpecProbe == ProbeInit /\ [][ProbeNext]_vars

---------------------------------------------------------------------------
(* Reading a run of run_command *)

\* The process was started and ended by itself with the code 0.
ZeroExit ==
    /\ spawned.output.ok
    /\ spawned.output.val.status = Exited(0)

\* C17 as stated: Ok exactly when the process was started and ended with the
\* code 0, and then the String returned is, byte for byte, the standard
\* output captured; Err otherwise.
C17_ExactStdout ==
    pc = "ran" =>
        /\ Unwrap(returned).ok <=> ZeroExit
        /\ Unwrap(returned).ok =>
              as_bytes(Unwrap(returned).val) = spawned.output.val.stdout

\* C17 as the code has it: Ok exactly when the process was started and ended
\* with the code 0, whatever it wrote; the String returned is made of the
\* standard output alone, each well-formed UTF-8 sequence kept and each
\* ill-formed run of bytes replaced by U+FFFD, so that it is the standard
\* output byte for byte when nothing was replaced; the standard error is in
\* the Err only.
C17_LossyStdout ==
    pc = "ran" =>
        LET value == Unwrap(returned)
        IN  /\ value.ok <=> ZeroExit
            /\ value.ok =>
                  /\ value.val = from_utf8_lossy(spawned.output.val.stdout)
                  /\ \A other \in StderrPool :
                        value = run_command(
                            Ok(Output(Exited(0), spawned.output.val.stdout, other)))
                  /\ ReplacementCharacter \notin {value.val[i] : i \in 1..Len(value.val)}
                        => as_bytes(value.val) = spawned.output.val.stdout
            /\ (spawned.output.ok /\ ~ZeroExit) =>
                  /\ value.val.text = from_utf8_lossy(spawned.output.val.stderr)
                  /\ value.val.code = code_or(spawned.output.val.status)

\* The process ended with the code 0 after writing "5", a line feed and a
\* byte that is no UTF-8, and something on its standard error.
C17_Witness ==
    /\ pc = "ran"
    /\ spawned.output = Ok(Output(Exited(0), <<53, 10, 255>>, <<101, 10>>))
    /\ returned = Some(Ok(<<53, 10, ReplacementCharacter>>))

\* The process ended with the code 1 after writing a whole line.
C17_WitnessFailed ==
    /\ pc = "ran"
    /\ spawned.output.ok
    /\ spawned.output.val.status = Exited(1)
    /\ spawned.output.val.stdout = <<53, 53, 10>>
    /\ ~Unwrap(returned).ok

---------------------------------------------------------------------------
(* main (main.rs 50-234): the operation the arguments select, the steps of *)
(* the diagnostic sweep, and the status the process ends with.             *)

\* Args as clap parsed them.
Args(verbose, showfix, sysinfo, compatibility, benchmark, check_updates, multi_gpu, export, import, validate_config) ==
    [verbose |-> verbose, showfix |-> showfix, sysinfo |-> sysinfo,
     compatibility |-> compatibility, benchmark |-> benchmark,
     check_updates |-> check_updates, multi_gpu |-> multi_gpu,
     export |-> export, import |-> import, validate_config |-> validate_config]

FileNames == {None, Some("FILE")}

ArgsPool ==
    {Args(verbose, showfix, sysinfo, compatibility, benchmark, check_updates,
          multi_gpu, export, import, validate_config) :
        verbose \in BOOLEAN, showfix \in BOOLEAN, sysinfo \in BOOLEAN,
        compatibility \in BOOLEAN, benchmark \in BOOLEAN, check_updates \in BOOLEAN,
        multi_gpu \in BOOLEAN, export \in FileNames, import \in FileNames,
        validate_config \in BOOLEAN}

\* The if-chain of main with import looked at before export.
mode_import_first(a) ==
    IF IsSome(a.import) THEN "import"
    ELSE IF IsSome(a.export) THEN "export"
    ELSE IF a.sysinfo THEN "sysinfo"
    ELSE IF a.compatibility THEN "compatibility"
    ELSE IF a.check_updates THEN "check_updates"
    ELSE IF a.validate_config THEN "validate_config"
    ELSE "sweep"

\* The if-chain of main (main.rs 56-84): the first test that holds returns.
mode(a) ==
    IF IsSome(a.export) THEN "export"
    ELSE IF IsSome(a.import) THEN "import"
    ELSE IF a.sysinfo THEN "sysinfo"
    ELSE IF a.compatibility THEN "compatibility"
    ELSE IF a.check_updates THEN "check_updates"
    ELSE IF a.validate_config THEN "validate_config"
    ELSE "sweep"

\* The status of a process whose main returned, and of one that panicked.
ExitSuccess == 0

ExitPanic == 101

\* One thing main did: the function called and how it went.
Step(operation_name, outcome) == [operation |-> operation_name, outcome |-> outcome]

\* A String by the UTF-8 widths of its chars.
Ascii(n) == [i \in 1..n |-> 1]

RECURSIVE ByteLen(_)
ByteLen(value) == IF value = << >> THEN 0 ELSE value[1] + ByteLen(Tail(value))

\* str::is_char_boundary
is_char_boundary(value, index) ==
    \E k \in 0..Len(value) : ByteLen(SubSeq(value, 1, k)) = index

\* check_environment_variables for one variable (lib.rs 958-966): "unset",
\* "whole", "cut" or, when &value[..57] is no slice of the string, "panic".
display_value(value) ==
    IF value = None THEN "unset"
    ELSE IF ByteLen(Unwrap(value)) > 60
         THEN (IF is_char_boundary(Unwrap(value), 57) THEN "cut" ELSE "panic")
         ELSE "whole"

important_vars ==
    <<"CUDA_PATH", "CUDA_HOME", "PATH", "LD_LIBRARY_PATH",
      "PYTHONPATH", "VIRTUAL_ENV", "CONDA_DEFAULT_ENV">>

\* What env::var may give: not set, a short value, one of 60 bytes, longer
\* ones of ASCII, and longer ones with a char of two bytes at the bytes
\* 56-57 and at the bytes 57-58 (counted from 0).
EnvValues ==
    {None, Some(Ascii(12)), Some(Ascii(60)), Some(Ascii(61)),
     Some(Ascii(56) \o <<2>> \o Ascii(10)), Some(Ascii(57) \o <<2>> \o Ascii(10))}

MainInit ==
    /\ pc = "main"
    /\ arguments \in ArgsPool
    /\ ran = << >>
    /\ status = None
    /\ ReconcileIdle
    /\ FacadeIdle
    /\ ParserIdle
    /\ CodecIdle
    /\ BuilderIdle
    /\ ProbeIdle

\* main returns.
Return(step) ==
    /\ ran' = Append(ran, step)
    /\ status' = Some(ExitSuccess)
    /\ pc' = "exited"

MainFrame ==
    UNCHANGED <<arguments, reconcileVars, facadeVars, parserVars, codecVars,
                builderVars, probeVars>>

\* main.rs 56-59
RunExport ==
    /\ pc = "main"
    /\ mode(arguments) = "export"
    /\ \E outcome \in {"written", "unwritable"} :
          Return(Step("export_environment", outcome))
    /\ MainFrame

\* main.rs 61-64
RunImport ==
    /\ pc = "main"
    /\ mode(arguments) = "import"
    /\ \E outcome \in {"compared", "unreadable", "undecodable"} :
          Return(Step("import_environment", outcome))
    /\ MainFrame

\* main.rs 66-69, show_system_info up to its call of
\* check_environment_variables.
RunSysinfo ==
    /\ pc = "main"
    /\ mode(arguments) = "sysinfo"
    /\ ran' = Append(ran, Step("show_system_info", "shown"))
    /\ pc' = "environment"
    /\ UNCHANGED status
    /\ MainFrame

\* One turn of the loop of check_environment_variables; after the last, main
\* returns.
CheckVariable ==
    /\ pc = "environment"
    /\ \E value \in EnvValues :
          LET name == important_vars[Len(ran)]
              shown == display_value(value)
          IN  /\ ran' = Append(ran, Step("check_environment_variables",
                                         IF shown = "panic" THEN shown ELSE name))
              /\ IF shown = "panic"
                 THEN status' = Some(ExitPanic) /\ pc' = "exited"
                 ELSE IF Len(ran) = Len(important_vars)
                      THEN status' = Some(ExitSuccess) /\ pc' = "exited"
                      ELSE status' = status /\ pc' = pc
    /\ MainFrame

\* main.rs 71-74
RunCompatibility ==
    /\ pc = "main"
    /\ mode(arguments) = "compatibility"
    /\ Return(Step("show_compatibility_matrix", "shown"))
    /\ MainFrame

\* main.rs 76-79
RunCheckUpdates ==
    /\ pc = "main"
    /\ mode(arguments) = "check_updates"
    /\ Return(Step("check_for_updates", "shown"))
    /\ MainFrame

\* main.rs 81-84
RunValidateConfig ==
    /\ pc = "main"
    /\ mode(arguments) = "validate_config"
    /\ Return(Step("validate_configuration", "shown"))
    /\ MainFrame

\* What a check of the sweep prints for the Result it got.
Shown(found) ==
    IF found THEN (IF arguments.verbose THEN "version" ELSE "found")
    ELSE (IF arguments.showfix THEN "not found, fix" ELSE "not found")

\* One check of the sweep, a check that found nothing ending the sweep.
Check_or_stop(at, function, next) ==
    /\ pc = at
    /\ \E found \in BOOLEAN :
          /\ ran' = Append(ran, Step(function, Shown(found)))
          /\ pc' = IF found THEN next ELSE "complete"
    /\ UNCHANGED status
    /\ MainFrame

\* One check of the sweep: the function is called and its Result printed.
Check(at, function, next) ==
    /\ pc = at
    /\ \E found \in BOOLEAN : ran' = Append(ran, Step(function, Shown(found)))
    /\ pc' = next
    /\ UNCHANGED status
    /\ MainFrame

\* main.rs 86-123
CheckGpu ==
    /\ mode(arguments) = "sweep"
    /\ Check("main",
             IF arguments.multi_gpu THEN "check_multiple_gpus" ELSE "check_nvidia_gpu",
             "driver")

\* main.rs 126-141
CheckDriver == Check("driver", "get_nvidia_driver_version", "toolkit")

\* main.rs 144-159
CheckToolkit == Check("toolkit", "get_cuda_toolkit_version", "cudnn")

\* main.rs 162-177
CheckCudnn == Check("cudnn", "get_cudnn_version", "tensorflow")

\* main.rs 180-195
CheckTensorflow == Check("tensorflow", "get_tensorflow_version", "pytorch")

\* main.rs 198-213
CheckPytorch ==
    Check("pytorch", "get_pytorch_version",
          IF arguments.benchmark THEN "benchmark" ELSE "complete")

\* main.rs 216-219
RunBenchmarks ==
    /\ pc = "benchmark"
    /\ ran' = Append(ran, Step("run_benchmarks", "shown"))
    /\ pc' = "complete"
    /\ UNCHANGED status
    /\ MainFrame

\* main.rs 221-233: the closing line, the hints, and the return.
Complete ==
    /\ pc = "complete"
    /\ Return(Step("complete",
                   IF ~arguments.verbose /\ ~arguments.showfix /\ ~arguments.benchmark
                   THEN "four hints"
                   ELSE IF ~arguments.showfix /\ ~arguments.benchmark THEN "two hints"
                   ELSE IF ~arguments.benchmark THEN "one hint"
                   ELSE "no hint"))
    /\ MainFrame

MainNext ==
    \/ RunExport
    \/ RunImport
    \/ RunSysinfo
    \/ CheckVariable
    \/ RunCompatibility
    \/ RunCheckUpdates
    \/ RunValidateConfig
    \/ CheckGpu
    \/ CheckDriver
    \/ CheckToolkit
    \/ CheckCudnn
    \/ CheckTensorflow
    \/ CheckPytorch
    \/ RunBenchmarks
    \/ Complete

SpecMain == MainInit /\ [][MainNext]_vars

\* The same with every call returning: main goes on as long as it has not
\* returned or panicked.
SpecMainLive == SpecMain /\ WF_vars(MainNext)

---------------------------------------------------------------------------
(* Reading a run of main *)

\* The report mode a function called by main belongs to.
ModeOf(function) ==
    CASE function = "export_environment" -> "export"
      [] function = "import_environment" -> "import"
      [] function \in {"show_system_info", "check_environment_variables"} -> "sysinfo"
      [] function = "show_compatibility_matrix" -> "compatibility"
      [] function = "check_for_updates" -> "check_updates"
      [] function = "validate_configuration" -> "validate_config"
      [] OTHER -> "sweep"

\* The report modes that ran so far.
ModesRun == {ModeOf(ran[i].operation) : i \in 1..Len(ran)}

NoModeFlag ==
    /\ arguments.export = None
    /\ arguments.import = None
    /\ ~arguments.sysinfo
    /\ ~arguments.compatibility
    /\ ~arguments.check_updates
    /\ ~arguments.validate_config

\* C18: the process ends with the status 0, whatever the mode and whatever
\* was found, written, read or decoded.
C18_ExitsZero == pc = "exited" => status = Some(ExitSuccess)

\* It does when the mode is not the one of --sysinfo.
C18_ExitsZeroButSysinfo ==
    (pc = "exited" /\ mode(arguments) # "sysinfo") => status = Some(ExitSuccess)

\* C19: at most one report mode has run at any time and exactly one when the
\* process ends; it is the export when --export is given, whatever else is;
\* the import when --import is given and --export is not; the sweep only
\* when none of --export, --import, --sysinfo, --compatibility,
\* --check-updates, --validate-config is given, and then it is the sweep;
\* --verbose and --showfix have no part in it.
C19_OneMode ==
    /\ Cardinality(ModesRun) <= 1
    /\ pc = "exited" => Cardinality(ModesRun) = 1
    /\ (ran # << >> /\ IsSome(arguments.export)) => ModesRun = {"export"}
    /\ (ran # << >> /\ arguments.export = None /\ IsSome(arguments.import))
          => ModesRun = {"import"}
    /\ "sweep" \in ModesRun => NoModeFlag
    /\ (ran # << >> /\ NoModeFlag) => ModesRun = {"sweep"}
    /\ \A verbose \in BOOLEAN, showfix \in BOOLEAN :
          ran # << >> =>
              ModesRun = {mode([arguments EXCEPT !.verbose = verbose,
                                                 !.showfix = showfix])}

\* --export and --import both given, with --sysinfo, --verbose and --showfix:
\* the export ran and nothing else.
C19_Witness ==
    /\ pc = "exited"
    /\ IsSome(arguments.export)
    /\ IsSome(arguments.import)
    /\ arguments.sysinfo
    /\ arguments.verbose
    /\ arguments.showfix
    /\ Len(ran) = 1
    /\ ran[1].operation = "export_environment"

\* --verbose, --showfix, --benchmark and --multi-gpu alone: the whole sweep.
C19_WitnessSweep ==
    /\ pc = "exited"
    /\ NoModeFlag
    /\ arguments.verbose /\ arguments.showfix
    /\ arguments.benchmark /\ arguments.multi_gpu
    /\ Len(ran) = 8
    /\ ran[1].operation = "check_multiple_gpus"
    /\ ran[7].operation = "run_benchmarks"

\* What the sweep calls, in the order of main.rs 86-221.
SweepCalls ==
    <<IF arguments.multi_gpu THEN "check_multiple_gpus" ELSE "check_nvidia_gpu",
      "get_nvidia_driver_version", "get_cuda_toolkit_version", "get_cudnn_version",
      "get_tensorflow_version", "get_pytorch_version">>
    \o (IF arguments.benchmark THEN <<"run_benchmarks">> ELSE << >>)
    \o <<"complete">>

===========================================================================
